---- MODULE Spec2Model ----
(***************************************************************************)
(* Model of the chart-library scanner of taiko-web (src/songs_scanner.py): *)
(* the scan pass (SongScanner._scan_impl), the upsert coordinator          *)
(* (SongScanner._upsert_song_document), the chart-array synchronisation    *)
(* (SongScanner._sync_song_charts) and the id allocator.                   *)
(*                                                                         *)
(* The specifications of the module:                                       *)
(*   Spec            one scanner running scan passes one after another     *)
(*                   while the songs tree changes between the passes; the  *)
(*                   database driver and the parser do not fail;           *)
(*   SpecFault       Spec plus passes in which the driver raises during    *)
(*                   the atomic upsert of one group;                       *)
(*   SpecShared      SpecFault with a database that the admin route and a  *)
(*                   second scanner instance write between the passes;     *)
(*   SpecUpsert      several threads calling _upsert_song_document for one *)
(*                   group key, one statement at a time;                   *)
(*   SpecScanCallers the callers of scan() under _scan_lock;               *)
(*   SpecLive        the calls of SpecUpsert and SpecScanCallers with      *)
(*                   their exits by exception, under fair scheduling;      *)
(*   SpecGroup       one group aggregated and upserted again and again;    *)
(*   SpecChart       _build_chart_records on one parsed course;            *)
(*   SpecGroupKey    compute_group_key on a record and variants of it;     *)
(*   SpecWatcher     the event handler of start_watcher, its timers and    *)
(*                   the scans their callbacks run;                        *)
(*   SpecWatcherLive SpecWatcher under fair scheduling;                    *)
(*   SpecParser      parse_tja reading a chart file line by line;          *)
(*   SpecDojo        parse_tja reading the note block of a dojo course.    *)
(***************************************************************************)
EXTENDS Integers, Sequences, FiniteSets, TLC

\* ------------------------------------------------------------------ bounds
\* chart files of the modelled tree (all in one top-level folder)
NumPaths == 2
\* versions of a chart file: a version stands for its bytes and its
\* (mtime_ns, size) signature, which a rewrite changes together
MaxTja == 2
\* versions of a companion audio file: again bytes (MD5) and signature
MaxAudio == 2
\* scan passes in one behaviour
MaxPasses == 3
\* changes of the songs tree in one behaviour
MaxChanges == 3
\* threads that call _upsert_song_document concurrently
NumThreads == 2
\* passes in which the database driver fails
MaxFaults == 1
\* upserts of the one group of SpecGroup
MaxUpserts == 2
\* #START and #END directives of a course, and notes of a course
MaxBlocks == 2
MaxNotes == 1
\* edits that turn an import record into a variant of it (SpecGroupKey)
MaxEdits == 2
\* file-system events delivered to the watcher's handler (SpecWatcher)
MaxEvents == 3
\* ticks of the clock of SpecWatcher
MaxClock == 5
\* passes of a second scanner instance and songs created through the admin
\* route, together, in one behaviour (SpecShared)
MaxOthers == 1
\* lines parse_tja reads after the first lines of the file (SpecParser)
MaxLines == 4
\* lines parse_tja reads after the head of a dojo file (SpecDojo)
MaxDojoLines == 6

Paths == 1..NumPaths
Threads == 1..NumThreads

\* --------------------------------------------------------- program constants
COURSE_ORDER == <<"Easy", "Normal", "Hard", "Oni", "UraOni">>
UNKNOWN_VALUE == "Unknown"
\* attempts of the atomic upsert: range(3)
MaxAttempts == 3
\* None / absent value of an integer field (ids start at 1)
NoId == 0

\* ------------------------------------------------------------ small helpers
Max(a, b) == IF a >= b THEN a ELSE b


RECURSIVE SetToSortedSeq(_)
\* sorted(...) over a set of integers
SetToSortedSeq(S) ==
    IF S = {} THEN <<>>
    ELSE LET m == CHOOSE x \in S : \A y \in S : x <= y
         IN <<m>> \o SetToSortedSeq(S \ {m})

\* dict.update / $set on a document: fields of upd replace those of doc
SetFields(doc, upd) ==
    [f \in (DOMAIN doc) \cup (DOMAIN upd) |->
        IF f \in DOMAIN upd THEN upd[f] ELSE doc[f]]

\* ------------------------------------------------------------ import records
\* A TjaImportRecord, reduced to what the pipeline reads from it:
\*   path  relative_path            tv  tja_hash / fingerprint (the version)
\*   ac    audio_hash, audio_mtime_ns and audio_size (the audio version);
\*         NoAudio when no companion audio was found
NoAudio == 0

MakeRecord(p, f) == [path |-> p, tv |-> f.tv, ac |-> f.ac]

\* record.audio_url / record.audio_path are set exactly when an audio file
\* inside the root was found, which is also when its hash was computed
HasAudioUrl(rec) == rec.ac # NoAudio

\* compute_group_key: "audio:<hash>:<folder>" when the record has an audio
\* hash, else "missing:<folder>:<title>:<path hash>".  All modelled files lie
\* in one folder and keep their title, so the key is decided by the audio
\* hash, or by the path when there is none.
compute_group_key(rec) ==
    IF rec.ac # NoAudio
    THEN [kind |-> "audio", n |-> rec.ac]
    ELSE [kind |-> "missing", n |-> rec.path]

\* sorted(aggregated_records.keys()): "audio:..." sorts before "missing:..."
KeyLess(a, b) ==
    \/ a.kind = "audio" /\ b.kind = "missing"
    \/ a.kind = b.kind /\ a.n < b.n

RECURSIVE SortKeys(_)
SortKeys(S) ==
    IF S = {} THEN <<>>
    ELSE LET m == CHOOSE x \in S : \A y \in S \ {x} : KeyLess(x, y)
         IN <<m>> \o SortKeys(S \ {m})

\* ------------------------------------------------------------------- charts
\* The charts parse_tja and _build_chart_records produce for version tv of
\* the file at path p: version 1 holds COURSE:Oni in every file (files of a
\* group then collide on the course), version 2 holds a course that depends
\* on the file (files of a group then merge), version 4 an unknown course
\* whose raw name depends on the file, version 5 an Oni course without notes
\* (not valid), version 6 an unknown course with the same raw name in every
\* file, version 7 a dojo course with the same display label in every file,
\* version 8 two courses (Hard, and Oni without notes); every other version
\* holds a dojo course whose display label depends on the file.
ChartRecords(p, tv) ==
    IF tv = 1 THEN
        << [course |-> "Oni", raw_course |-> "Oni", mode |-> "standard",
            display_course |-> "", valid |-> TRUE, ver |-> tv] >>
    ELSE IF tv = 2 THEN
        LET c == COURSE_ORDER[((p - 1) % 5) + 1] IN
        << [course |-> c, raw_course |-> c, mode |-> "standard",
            display_course |-> "", valid |-> TRUE, ver |-> tv] >>
    ELSE IF tv = 4 THEN
        << [course |-> UNKNOWN_VALUE, raw_course |-> ToString(p),
            mode |-> "standard", display_course |-> "", valid |-> FALSE,
            ver |-> tv] >>
    ELSE IF tv = 5 THEN
        << [course |-> "Oni", raw_course |-> "Oni", mode |-> "standard",
            display_course |-> "", valid |-> FALSE, ver |-> tv] >>
    ELSE IF tv = 6 THEN
        << [course |-> UNKNOWN_VALUE, raw_course |-> "Tower",
            mode |-> "standard", display_course |-> "", valid |-> FALSE,
            ver |-> tv] >>
    ELSE IF tv = 7 THEN
        << [course |-> "Dojo", raw_course |-> "Dan", mode |-> "dojo",
            display_course |-> "Dan", valid |-> TRUE, ver |-> tv] >>
    ELSE IF tv = 8 THEN
        << [course |-> "Hard", raw_course |-> "Hard", mode |-> "standard",
            display_course |-> "", valid |-> TRUE, ver |-> tv],
           [course |-> "Oni", raw_course |-> "Oni", mode |-> "standard",
            display_course |-> "", valid |-> FALSE, ver |-> tv] >>
    ELSE
        << [course |-> "Dojo", raw_course |-> "Dan", mode |-> "dojo",
            display_course |-> ToString(p), valid |-> TRUE, ver |-> tv] >>

\* _dedup_key of _build_song_document
DedupKey(chart) ==
    IF chart.mode # "standard" THEN
        <<chart.mode, chart.course,
          IF chart.display_course # "" THEN chart.display_course
          ELSE IF chart.raw_course # "" THEN chart.raw_course
          ELSE chart.course>>
    ELSE IF chart.course = UNKNOWN_VALUE THEN
        <<"", chart.course, chart.raw_course>>
    ELSE <<"", chart.course, "">>

\* entry dict built for one chart of one record
ChartEntry(rec, chart) ==
    [course |-> chart.course, raw_course |-> chart.raw_course,
     mode |-> chart.mode, display_course |-> chart.display_course,
     valid |-> chart.valid, ver |-> chart.ver, dup |-> FALSE,
     tja_path |-> rec.path]

AddChartEntryKeepsFirst(acc, entry) ==
    IF \E i \in DOMAIN acc : DedupKey(acc[i]) = DedupKey(entry)
    THEN LET i == CHOOSE j \in DOMAIN acc : DedupKey(acc[j]) = DedupKey(entry)
         IN [acc EXCEPT ![i] = [acc[i] EXCEPT !.dup = TRUE]]
    ELSE Append(acc, entry)

\* one iteration of the chart loop: chart_by_key keeps insertion order
AddChartEntry(acc, entry) ==
    IF \E i \in DOMAIN acc : DedupKey(acc[i]) = DedupKey(entry)
    THEN LET i == CHOOSE j \in DOMAIN acc : DedupKey(acc[j]) = DedupKey(entry)
             existing == [acc[i] EXCEPT !.dup = TRUE]
             flagged == [entry EXCEPT !.dup = TRUE]
         IN [acc EXCEPT ![i] = IF ~existing.valid /\ entry.valid
                                THEN flagged ELSE existing]
    ELSE Append(acc, entry)

RECURSIVE AddRecordCharts(_, _, _)
AddRecordCharts(acc, rec, charts) ==
    IF charts = <<>> THEN acc
    ELSE AddRecordCharts(AddChartEntry(acc, ChartEntry(rec, Head(charts))),
                         rec, Tail(charts))

RECURSIVE SortedRecords(_)
\* sorted(records, key=lambda rec: rec.relative_path): a stable sort
SortedRecords(records) ==
    IF records = <<>> THEN <<>>
    ELSE LET n == Len(records)
             rest == SortedRecords(SubSeq(records, 1, n - 1))
             k == Cardinality({i \in DOMAIN rest : rest[i].path <= records[n].path})
         IN SubSeq(rest, 1, k) \o <<records[n]>> \o SubSeq(rest, k + 1, Len(rest))

RECURSIVE ChartStream(_)
\* the entries in the order the two nested loops visit them
ChartStream(records) ==
    IF records = <<>> THEN <<>>
    ELSE LET rec == Head(records)
             charts == ChartRecords(rec.path, rec.tv)
         IN [i \in DOMAIN charts |-> ChartEntry(rec, charts[i])]
            \o ChartStream(Tail(records))

\* the label added to duplicate_courses for a chart that finds an entry
\* under its dedup key: "course", "Unknown:raw", "mode:label:display"
DuplicateLabel(chart) ==
    <<IF chart.mode # "standard" THEN chart.mode ELSE "",
      chart.course,
      IF chart.course = UNKNOWN_VALUE THEN chart.raw_course ELSE "",
      IF chart.mode = "standard" THEN ""
      ELSE IF chart.display_course # "" THEN chart.display_course
      ELSE chart.raw_course>>

\* duplicate_courses after the loops over sorted_records
DuplicateCourses(sorted_records) ==
    LET stream == ChartStream(sorted_records) IN
    {DuplicateLabel(stream[i]) : i \in {j \in DOMAIN stream :
        \E h \in 1..(j - 1) : DedupKey(stream[h]) = DedupKey(stream[j])}}

\* import_issues of the document: duplicate_course is added when
\* duplicate_courses is not empty (the issues the records bring along are
\* left out; none of them is duplicate_course)
ImportIssues(sorted_records) ==
    IF DuplicateCourses(sorted_records) # {} THEN {"duplicate_course"} ELSE {}

RECURSIVE ChartByKey(_)
\* records: sequence sorted by relative_path
ChartByKey(records) ==
    IF records = <<>> THEN <<>>
    ELSE LET n == Len(records)
             rec == records[n]
         IN AddRecordCharts(ChartByKey(SubSeq(records, 1, n - 1)), rec,
                            ChartRecords(rec.path, rec.tv))

\* position of a course name in the lexicographic order of the names
CourseNameRank(course) ==
    CASE course = "Dojo" -> 1 [] course = "Easy" -> 2 [] course = "Hard" -> 3
      [] course = "Normal" -> 4 [] course = "Oni" -> 5
      [] course = UNKNOWN_VALUE -> 6 [] course = "UraOni" -> 7 [] OTHER -> 8

CourseIndex(course) ==
    IF \E i \in DOMAIN COURSE_ORDER : COURSE_ORDER[i] = course
    THEN (CHOOSE i \in DOMAIN COURSE_ORDER : COURSE_ORDER[i] = course) - 1
    ELSE Len(COURSE_ORDER)

\* _chart_sort_key as a 4-tuple of integers
ChartSortKey(item) ==
    <<IF item.mode = "standard" THEN 0 ELSE 1, CourseIndex(item.course),
      CourseNameRank(item.course), item.tja_path>>

TupleLess(a, b) ==
    \E i \in 1..4 : a[i] < b[i] /\ \A j \in 1..(i - 1) : a[j] = b[j]

RECURSIVE SortCharts(_)
\* sorted(chart_by_key.values(), key=_chart_sort_key): a stable sort
SortCharts(s) ==
    IF s = <<>> THEN <<>>
    ELSE LET n == Len(s)
             rest == SortCharts(SubSeq(s, 1, n - 1))
             x == s[n]
             k == Cardinality({i \in DOMAIN rest :
                      ~TupleLess(ChartSortKey(x), ChartSortKey(rest[i]))})
         IN SubSeq(rest, 1, k) \o <<x>> \o SubSeq(rest, k + 1, Len(rest))


\* ---------------------------------------------------------- song documents
\* _select_base_record: max() returns the first record with the highest
\* (valid charts, charts, has audio) score
RecordScore(rec) ==
    LET charts == ChartRecords(rec.path, rec.tv) IN
    <<Cardinality({i \in DOMAIN charts : charts[i].valid}), Len(charts),
      IF HasAudioUrl(rec) THEN 1 ELSE 0, 0>>

SelectBaseRecord(records) ==
    LET best == CHOOSE i \in DOMAIN records :
                  /\ \A j \in DOMAIN records :
                        ~TupleLess(RecordScore(records[i]), RecordScore(records[j]))
                  /\ \A j \in 1..(i - 1) :
                        TupleLess(RecordScore(records[j]), RecordScore(records[i]))
    IN records[best]

\* first record of the list that has an audio hash, NoAudio when none has
FirstAudioHash(records) ==
    IF \E i \in DOMAIN records : records[i].ac # NoAudio
    THEN records[CHOOSE i \in DOMAIN records :
                    /\ records[i].ac # NoAudio
                    /\ \A j \in 1..(i - 1) : records[j].ac = NoAudio].ac
    ELSE NoAudio

\* _build_song_document.  The fields of the document:
\*   base     the base record's path: title, subtitle, locale, paths, genre
\*   members  (path, version) of every record: hash and fingerprint
\*   enabled  bool(audio_url);  audioHash;  charts: the sorted chart payload
\*   import_issues  whether the charts of the group collided
\*   order    None;  the document has no id
BuildSongDocument(key, records) ==
    [base |-> SelectBaseRecord(records).path,
     members |-> {<<records[i].path, records[i].tv>> : i \in DOMAIN records},
     enabled |-> \E i \in DOMAIN records : HasAudioUrl(records[i]),
     audioHash |-> FirstAudioHash(records),
     charts |-> SortCharts(ChartByKey(SortedRecords(records))),
     import_issues |-> ImportIssues(SortedRecords(records)),
     order |-> NoId,
     managed_by_scanner |-> TRUE,
     group_key |-> key]

\* fields the refresh must not write
ProtectedFields == {"id", "order", "_id", "charts"}

\* base_document of _upsert_song_document
BaseDocument(document, key) ==
    [f \in ((DOMAIN document) \ ProtectedFields) \cup {"group_key"} |->
        IF f = "group_key" THEN key ELSE document[f]]

\* insert_document: the base document with an empty charts array
InsertDocument(document, key) ==
    SetFields(BaseDocument(document, key), [charts |-> <<>>])

\* ------------------------------------------------------ the songs collection
\* A collection is the sequence of its documents in insertion order.  Every
\* row carries id and order; NoId stands for an absent (or None) value.
NextOid(coll) ==
    1 + (IF coll = <<>> THEN 0
         ELSE CHOOSE m \in {coll[i]["_id"] : i \in DOMAIN coll} :
                \A i \in DOMAIN coll : coll[i]["_id"] <= m)

HasKey(coll, key) == \E i \in DOMAIN coll : coll[i].group_key = key

FirstWithKey(coll, key) ==
    CHOOSE i \in DOMAIN coll :
        /\ coll[i].group_key = key
        /\ \A j \in 1..(i - 1) : coll[j].group_key # key

FindOneAndUpdateAlwaysInserts(coll, key, insertDoc) ==
    LET row == SetFields(SetFields([id |-> NoId, order |-> NoId], insertDoc),
                         [group_key |-> key, _id |-> NextOid(coll)])
    IN [coll |-> Append(coll, row), doc |-> row]

\* db.songs.find_one_and_update({'group_key': key}, {'$setOnInsert': ...},
\* upsert=True, return_document=AFTER): one atomic step of the database
FindOneAndUpdate(coll, key, insertDoc) ==
    IF HasKey(coll, key)
    THEN [coll |-> coll, doc |-> coll[FirstWithKey(coll, key)]]
    ELSE LET row == SetFields(SetFields([id |-> NoId, order |-> NoId], insertDoc),
                              [group_key |-> key, _id |-> NextOid(coll)])
         IN [coll |-> Append(coll, row), doc |-> row]

\* the row with that _id
RowOfOid(coll, oid) == coll[CHOOSE i \in DOMAIN coll : coll[i]["_id"] = oid]

\* db.songs.update_one({'_id': oid}, {'$set': upd})
UpdateOneSet(coll, oid, upd) ==
    [i \in DOMAIN coll |->
        IF coll[i]["_id"] = oid /\ \A j \in 1..(i - 1) : coll[j]["_id"] # oid
        THEN SetFields(coll[i], upd) ELSE coll[i]]

\* db.songs.update_one({'id': id}, {'$set': upd}): the first row with that id
UpdateOneSetById(coll, id, upd) ==
    [i \in DOMAIN coll |->
        IF coll[i].id = id /\ \A j \in 1..(i - 1) : coll[j].id # id
        THEN SetFields(coll[i], upd) ELSE coll[i]]

\* ------------------------------------------------- chart-array synchronisation
\* array filter of _sync_song_charts for one desired chart
MatchesFilter(elem, chart) ==
    /\ elem.course = chart.course
    /\ (chart.course = UNKNOWN_VALUE => elem.raw_course = chart.raw_course)

SyncOneChartPush(stored, chart, nowMs) ==
    Append(stored, SetFields(chart, [updatedAt |-> nowMs]))

\* one iteration: $set charts.$[c] on the matching elements, then $addToSet
SyncOneChart(stored, chart, nowMs) ==
    LET chart_doc == SetFields(chart, [updatedAt |-> nowMs])
        replaced == [i \in DOMAIN stored |->
                        IF MatchesFilter(stored[i], chart)
                        THEN chart_doc ELSE stored[i]]
    IN IF \E i \in DOMAIN replaced : replaced[i] = chart_doc
       THEN replaced ELSE Append(replaced, chart_doc)

RECURSIVE SyncLoop(_, _, _)
SyncLoop(stored, charts, nowMs) ==
    IF charts = <<>> THEN stored
    ELSE SyncLoop(SyncOneChart(stored, Head(charts), nowMs), Tail(charts), nowMs)

\* the two $pull updates after the loop
PullCharts(stored, charts) ==
    LET desired_courses == {charts[i].course : i \in DOMAIN charts}
        unknown_raw_courses == {charts[i].raw_course : i \in
                                  {j \in DOMAIN charts : charts[j].course = UNKNOWN_VALUE}}
        keep1 == SelectSeq(stored, LAMBDA e : e.course \in desired_courses)
    IN IF unknown_raw_courses = {} THEN keep1
       ELSE SelectSeq(keep1, LAMBDA e : ~(e.course = UNKNOWN_VALUE
                                           /\ e.raw_course \notin unknown_raw_courses))

\* _sync_song_charts: the stored charts array afterwards
SyncSongCharts(stored, charts, nowMs) ==
    IF charts = <<>> THEN <<>>
    ELSE PullCharts(SyncLoop(stored, charts, nowMs), charts)


\* --------------------------------------------------------- the id allocator
\* the scanner's counter: next = NoId stands for _next_song_id = None
HighestSongId(coll) ==
    IF coll = <<>> THEN 0
    ELSE CHOOSE m \in {coll[i].id : i \in DOMAIN coll} :
            \A i \in DOMAIN coll : coll[i].id <= m

\* _ensure_sequence
EnsureSequence(ctr, seqValue, coll) ==
    IF ctr.next # NoId THEN ctr
    ELSE LET current == Max(Max(0, seqValue), HighestSongId(coll))
         IN [next |-> current + 1, max |-> current]

\* _get_next_song_id: the id handed out and the counter afterwards
GetNextSongId(ctr, seqValue, coll) ==
    LET c == EnsureSequence(ctr, seqValue, coll)
    IN [id |-> c.next, ctr |-> [next |-> c.next + 1, max |-> Max(c.max, c.next)]]

\* _update_sequence: the value of the seq row afterwards
UpdateSequence(ctr, seqValue) == IF ctr.max > 0 THEN ctr.max ELSE seqValue

\* ----------------------------------------------------- _upsert_song_document
ValidGroupKey(key) == key.kind \in {"audio", "missing"}

ExistingIdIgnored(result_doc) == NoId

\* existing_id: the id of the returned row when it is an integer
ExistingId(result_doc) == result_doc.id

NeedsRefreshAlways(inserted, key, dirty_groups) == TRUE

\* needs_refresh = inserted or key in dirty_groups
NeedsRefresh(inserted, key, dirty_groups) == inserted \/ key \in dirty_groups

CountsAsUpdatedNever(inserted, key, dirty_groups) == FALSE

\* the guard of summary['updated'] += 1
CountsAsUpdated(inserted, key, dirty_groups) == key \in dirty_groups /\ ~inserted

\* The call run by the scan pass (one thread, the whole body), written as
\* its stages, last stage first.
\*   st    [songs, ctr, summary, refreshed]: collection, id counter, running
\*         summary, and the keys for which the refresh ($set of the base
\*         document and chart synchronisation) was issued so far
\*   fail  "none", or "find": the driver raises an error that is not a
\*         duplicate-key error in find_one_and_update, which the handler
\*         re-raises, or "retries": the driver raises DuplicateKeyError in
\*         every attempt, result_doc stays None and the call returns None
\* Result: st plus song_id (NoId for None) and raised.

\* _sync_song_charts(song_filter, charts_payload) and return song_id
UpsertSync(st, key, document, nowMs, oid, song_id, ctr1, songs2, sum2) ==
    [songs |-> UpdateOneSet(songs2, oid,
                  [charts |-> SyncSongCharts(RowOfOid(songs2, oid).charts,
                                             document.charts, nowMs)]),
     ctr |-> ctr1, summary |-> sum2, refreshed |-> st.refreshed \cup {key},
     song_id |-> song_id, raised |-> FALSE]

\* needs_refresh, and the $set of the base document
UpsertRefresh(st, key, document, dirty_groups, nowMs, oid, inserted, song_id, ctr1, songs1, sum1) ==
    IF ~NeedsRefresh(inserted, key, dirty_groups)
    THEN [songs |-> songs1, ctr |-> ctr1, summary |-> sum1,
          refreshed |-> st.refreshed, song_id |-> song_id, raised |-> FALSE]
    ELSE UpsertSync(st, key, document, nowMs, oid, song_id, ctr1,
                    UpdateOneSet(songs1, oid, BaseDocument(document, key)),
                    IF CountsAsUpdated(inserted, key, dirty_groups)
                    THEN [sum1 EXCEPT !.updated = @ + 1] ELSE sum1)

\* if inserted: the $set of id and order to new_id
UpsertAllocated(st, key, document, dirty_groups, nowMs, found, alloc) ==
    UpsertRefresh(st, key, document, dirty_groups, nowMs, found.doc["_id"],
                  TRUE, alloc.id, alloc.ctr,
                  UpdateOneSet(found.coll, found.doc["_id"],
                               [id |-> alloc.id, order |-> alloc.id]),
                  [st.summary EXCEPT !.inserted = @ + 1])

\* existing_id, inserted = existing_id is None, _get_next_song_id()
UpsertAssign(st, key, document, dirty_groups, seqValue, nowMs, found) ==
    IF ExistingId(found.doc) # NoId
    THEN UpsertRefresh(st, key, document, dirty_groups, nowMs, found.doc["_id"],
                       FALSE, ExistingId(found.doc), st.ctr, found.coll,
                       st.summary)
    ELSE UpsertAllocated(st, key, document, dirty_groups, nowMs, found,
                         GetNextSongId(st.ctr, seqValue, found.coll))

UpsertSongDocument(st, key, document, dirty_groups, seqValue, nowMs, fail) ==
    IF ~ValidGroupKey(key) THEN
        [songs |-> st.songs, ctr |-> st.ctr,
         summary |-> [st.summary EXCEPT !.errors = @ + 1],
         refreshed |-> st.refreshed, song_id |-> NoId, raised |-> FALSE]
    ELSE IF fail = "find" THEN
        [songs |-> st.songs, ctr |-> st.ctr, summary |-> st.summary,
         refreshed |-> st.refreshed, song_id |-> NoId, raised |-> TRUE]
    ELSE IF fail = "retries" THEN
        [songs |-> st.songs, ctr |-> st.ctr,
         summary |-> [st.summary EXCEPT !.errors = @ + 1],
         refreshed |-> st.refreshed, song_id |-> NoId, raised |-> FALSE]
    ELSE
        UpsertAssign(st, key, document, dirty_groups, seqValue, nowMs,
                     FindOneAndUpdate(st.songs, key, InsertDocument(document, key)))


\* ------------------------------------------------------------ the scan pass
\* A file of the tree: tv = 0 when the chart file is absent; ac = NoAudio
\* when it has no companion audio.  A state row: tv = 0 when there is none;
\* tv is tja_mtime_ns/tja_size/tja_hash, ac is audio_mtime_ns/audio_size/
\* audio_hash (audio_path is a string exactly when ac is set); snap tells
\* whether the stored record deserialises (_record_from_state).
NoFile == [tv |-> 0, ac |-> NoAudio]
NoState == [tv |-> 0, ac |-> NoAudio, song_id |-> NoId, snap |-> FALSE]

ZeroSummary ==
    [found |-> 0, inserted |-> 0, updated |-> 0, disabled |-> 0,
     errors |-> 0, skipped |-> 0]

NeedsProcessingTjaOnly(full, state_doc, f) ==
    \/ full
    \/ state_doc.tv = 0
    \/ state_doc.tv # f.tv

\* needs_processing as decided from the signatures (before the snapshot is
\* looked at): the stored audio path must be set, the audio must exist and
\* its signature must equal the stored one
NeedsProcessing(full, state_doc, f) ==
    \/ full
    \/ state_doc.tv = 0
    \/ state_doc.tv # f.tv
    \/ state_doc.ac = NoAudio
    \/ f.ac = NoAudio
    \/ state_doc.ac # f.ac

\* the file is skipped: its record comes from the stored snapshot
IsSkipped(full, state_doc, f) ==
    ~NeedsProcessing(full, state_doc, f) /\ state_doc.snap

\* was_dirty: taken before the snapshot fallback
WasDirty(full, state_doc, f) == NeedsProcessing(full, state_doc, f)

\* _record_from_state of the state row of path p
RecordFromState(p, state_doc) ==
    [path |-> p, tv |-> state_doc.tv, ac |-> state_doc.ac]

\* the record the pass works with for the present file at path p
FileRecord(full, p, state_doc, f) ==
    IF IsSkipped(full, state_doc, f) THEN RecordFromState(p, state_doc)
    ELSE MakeRecord(p, f)

\* what the driver does in the atomic upsert of group key: failKey is <<>>
\* (no failure in the pass), <<k>> (an error that is not a duplicate-key
\* error, for group k) or <<k, "retries">> (a duplicate-key error in every
\* attempt, for group k)
FailureOf(failKey, key) ==
    IF Len(failKey) = 1 /\ failKey[1] = key THEN "find"
    ELSE IF Len(failKey) = 2 /\ failKey[1] = key THEN "retries"
    ELSE "none"

\* after the call for one group: song_id_by_key[key] = song_id unless None
GroupUpserted(st, key, r) ==
    [songs |-> r.songs, ctr |-> r.ctr, summary |-> r.summary,
     refreshed |-> r.refreshed, raised |-> r.raised,
     song_id_by_key |-> IF r.song_id # NoId
                        THEN SetFields(st.song_id_by_key, (key :> r.song_id))
                        ELSE st.song_id_by_key]

RECURSIVE UpsertGroups(_, _, _, _, _, _, _)
\* the loop over sorted(aggregated_records.keys()); an exception raised by
\* _upsert_song_document leaves the loop and the pass
UpsertGroups(st, keys, recordsOf, dirty_groups, seqValue, nowMs, failKey) ==
    IF keys = <<>> \/ st.raised THEN st
    ELSE UpsertGroups(
           GroupUpserted(st, Head(keys),
               UpsertSongDocument(st, Head(keys),
                   BuildSongDocument(Head(keys), recordsOf[Head(keys)]),
                   dirty_groups, seqValue, nowMs,
                   FailureOf(failKey, Head(keys)))),
           Tail(keys), recordsOf, dirty_groups, seqValue, nowMs, failKey)

\* _cleanup_invalid_group_keys: rows whose group_key is not a string go
CleanupInvalidGroupKeys(coll) ==
    SelectSeq(coll, LAMBDA row : ValidGroupKey(row.group_key))

\* managed_songs: ids of the managed rows, with bool(enabled) of the last
\* row read for each id
ManagedIds(coll) ==
    {coll[i].id : i \in {j \in DOMAIN coll :
                           coll[j].managed_by_scanner /\ coll[j].id # NoId}}

PreviousEnabled(coll, id) ==
    LET last == CHOOSE i \in DOMAIN coll :
                  /\ coll[i].managed_by_scanner /\ coll[i].id = id
                  /\ \A j \in DOMAIN coll :
                        (coll[j].managed_by_scanner /\ coll[j].id = id) => j <= i
    IN coll[last].enabled

MissingIdsAll(managed, seen_song_ids) == managed

\* missing_ids = set(managed_songs.keys()) - seen_song_ids
MissingIds(managed, seen_song_ids) == managed \ seen_song_ids

CountsAsDisabledAlways(previous_enabled) == TRUE

\* the guard of summary['disabled'] += 1
CountsAsDisabled(previous_enabled) == previous_enabled

RECURSIVE Tombstone(_, _)
\* the loop over sorted(missing_ids)
Tombstone(coll, ids) ==
    IF ids = <<>> THEN coll
    ELSE Tombstone(UpdateOneSetById(coll, Head(ids), [enabled |-> FALSE]), Tail(ids))

IsStaleNever(state_doc, seen) == FALSE

\* stale_paths = set(state_docs.keys()) - seen_state_paths
IsStale(state_doc, seen) == state_doc.tv # 0 /\ ~seen

\* _scan_impl.  tree and root are the chart files and whether the songs
\* directory exists; failKey names the group whose atomic upsert hits a
\* driver error, if any (see FailureOf).  The categories collection and the metrics
\* are left out: nothing the model observes reads them.  Besides the new
\* contents of the collections and the summary, the result carries a trace
\* of what the pass did:
\*   root, present, keys   whether the directory was found, the chart files
\*                         enumerated, the group keys aggregated
\*   skipped, dirty        files taken from their snapshot; dirty_groups
\*   refreshed, seen       keys whose refresh was issued; seen_song_ids
\*   unseen, counted       missing_ids; those counted in disabled
\*   failed                <<key>> when a driver error was injected, else <<>>

\* the records of the paths ps, in that order
RecordsInOrder(rec, ps) == [i \in DOMAIN ps |-> rec[ps[i]]]

\* The stages of _scan_impl, last stage first.

\* the loop over sorted(missing_ids), and the summary returned
ScanTombstone(failKey, w, state1, seq0, up, missing_ids, counted) ==
    [songs |-> Tombstone(up.songs, SetToSortedSeq(missing_ids)),
     state |-> state1, seq |-> UpdateSequence(up.ctr, seq0), ctr |-> up.ctr,
     summary |-> [up.summary EXCEPT !.disabled = Cardinality(counted)],
     raised |-> FALSE,
     trace |-> [root |-> TRUE, present |-> w.present, skipped |-> w.skipped,
                dirty |-> w.dirty, keys |-> w.keys, refreshed |-> up.refreshed,
                seen |-> {up.song_id_by_key[k] : k \in DOMAIN up.song_id_by_key},
                unseen |-> missing_ids, counted |-> counted,
                failed |-> failKey]]

\* missing_ids and the rows among them that count in disabled
ScanMissing(failKey, cleaned, w, state1, seq0, up, missing_ids) ==
    ScanTombstone(failKey, w, state1, seq0, up, missing_ids,
                  {id \in missing_ids :
                       CountsAsDisabled(PreviousEnabled(cleaned, id))})

\* the state rows after the write of the seen paths and the prune of the
\* stale ones; _update_sequence
ScanState(failKey, tree, cleaned, state0, seq0, w, up) ==
    ScanMissing(failKey, cleaned, w,
        [p \in Paths |->
            IF IsStale(state0[p], p \in w.present) THEN NoState
            ELSE IF p \in w.present /\ w.keyOf[p] \in DOMAIN up.song_id_by_key
            THEN [tv |-> tree[p].tv, ac |-> w.rec[p].ac,
                  song_id |-> up.song_id_by_key[w.keyOf[p]], snap |-> TRUE]
            ELSE state0[p]],
        seq0, up,
        MissingIds(ManagedIds(cleaned),
                   {up.song_id_by_key[k] : k \in DOMAIN up.song_id_by_key}))

\* after the loop over the groups: an exception leaves the pass here
ScanUpserted(failKey, tree, cleaned, state0, seq0, w, up) ==
    IF up.raised
    THEN [songs |-> up.songs, state |-> state0, seq |-> seq0, ctr |-> up.ctr,
          summary |-> up.summary, raised |-> TRUE,
          trace |-> [root |-> TRUE, present |-> w.present,
                     skipped |-> w.skipped, dirty |-> w.dirty, keys |-> w.keys,
                     refreshed |-> up.refreshed,
                     seen |-> {up.song_id_by_key[k] :
                                  k \in DOMAIN up.song_id_by_key},
                     unseen |-> {}, counted |-> {}, failed |-> failKey]]
    ELSE ScanState(failKey, tree, cleaned, state0, seq0, w, up)

\* the loop over the groups, given what the walk of the tree produced
ScanGroups(failKey, tree, cleaned, state0, seq0, ctr0, nowMs, w) ==
    ScanUpserted(failKey, tree, cleaned, state0, seq0, w,
        UpsertGroups([songs |-> cleaned, ctr |-> ctr0,
                      summary |-> [ZeroSummary EXCEPT
                                     !.found = Cardinality(w.present),
                                     !.skipped = Cardinality(w.skipped)],
                      refreshed |-> {}, raised |-> FALSE,
                      song_id_by_key |-> <<>>],
                     SortKeys(w.keys), w.recordsOf, w.dirty, seq0, nowMs,
                     failKey))

\* aggregated_records, dirty_groups and the skipped files
WalkGroups(full, tree, state0, present, rec, keyOf) ==
    [present |-> present, rec |-> rec, keyOf |-> keyOf,
     keys |-> {keyOf[p] : p \in present},
     dirty |-> {keyOf[p] : p \in {q \in present :
                                     WasDirty(full, state0[q], tree[q])}},
     recordsOf |-> [k \in {keyOf[p] : p \in present} |->
                      RecordsInOrder(rec, SetToSortedSeq({p \in present : keyOf[p] = k}))],
     skipped |-> {p \in present : IsSkipped(full, state0[p], tree[p])}]

\* group_key_by_path
WalkKeys(full, tree, state0, present, rec) ==
    WalkGroups(full, tree, state0, present, rec,
               [p \in present |-> compute_group_key(rec[p])])

\* the loop over _iter_tja_files(): the files found and their records
WalkFiles(full, tree, state0, present) ==
    WalkKeys(full, tree, state0, present,
             [p \in present |-> FileRecord(full, p, state0[p], tree[p])])

\* the pass returns its empty summary when the songs directory is missing
ScanTree(full, failKey, tree, root, cleaned, state0, seq0, ctr0, nowMs) ==
    IF ~root
    THEN [songs |-> cleaned, state |-> state0, seq |-> seq0, ctr |-> ctr0,
          summary |-> ZeroSummary, raised |-> FALSE,
          trace |-> [root |-> FALSE, present |-> {}, skipped |-> {},
                     dirty |-> {}, keys |-> {}, refreshed |-> {}, seen |-> {},
                     unseen |-> {}, counted |-> {}, failed |-> failKey]]
    ELSE ScanGroups(failKey, tree, cleaned, state0, seq0, ctr0, nowMs,
                    WalkFiles(full, tree, state0,
                              {p \in Paths : tree[p].tv # 0}))

ScanImpl(full, failKey, tree, root, songs0, state0, seq0, ctr0, nowMs) ==
    ScanTree(full, failKey, tree, root, CleanupInvalidGroupKeys(songs0),
             state0, seq0, ctr0, nowMs)


\* =================================================================== state
VARIABLES
    fs,         \* the songs tree: [root, files]
    songs,      \* the songs collection
    state,      \* the song_scanner_state collection, by tja_path
    seq,        \* value of the seq row named "songs" (0 when there is none)
    ctr,        \* the scanner's _next_song_id / _max_song_id
    now,        \* the clock (milliseconds), advanced by every pass
    passes,     \* scan passes run so far
    changes,    \* changes of the tree (and of the state rows) so far
    summary,    \* what the last pass returned
    lastKind,   \* "none", "full" or "incr": the last pass
    prevKind,   \* the pass before the last one
    quiet,      \* the tree did not change between those two passes
    fsDirty,    \* the tree changed since the last pass
    stDirty,    \* a state row was altered from outside since the last pass
    aborted,    \* the last pass was left by an exception
    faults,     \* passes so far in which the driver failed
    trace,      \* what the last pass did (see ScanImpl)
    prevUnseen, \* missing_ids of the pass before the last one
    preSongs,   \* the songs collection when the last pass started
    preState,   \* the state rows when the last pass started
    preCtr,     \* the id counter when the last pass started
    th,         \* the threads inside _upsert_song_document (see UpsertInit)
    locks,      \* _group_locks: per group key, the thread holding its lock
    sc,         \* the callers of scan(): where each is (see IdleCaller)
    scanLock,   \* _scan_lock: the caller holding it, or NoCaller
    cg,         \* the group of SpecGroup: its records and built document
    cc,         \* the course of SpecChart: parser output and chart record
    gk,         \* the records of SpecGroupKey: a record and a variant of it
    wt,         \* the handler of SpecWatcher: its timer and what it did
    pt,         \* the parser of SpecParser: parse_tja's locals, the line read
    ad          \* the other clients of the database (see NoOthers)

passVars == <<songs, state, seq, ctr, now, passes, summary, lastKind, prevKind,
              quiet, stDirty, aborted, faults, trace, prevUnseen, preSongs, preState,
              preCtr>>

\* the callers of scan(): the admin endpoint, the watcher callback, startup
Callers == {"admin", "watcher", "startup"}
NoCaller == "none"

callerVars == <<sc, scanLock>>

\* the variables of the specifications of single functions
fnVars == <<cg, cc, gk, wt, pt>>
auxVars == <<callerVars, fnVars, ad>>

upsertVars == <<th, locks, auxVars>>

\* nobody else has used the database: ctr is the counter of a second
\* SongScanner instance, n the passes of that instance and the songs created
\* through the admin route so far, handed the ids this scanner has handed out
NoOthers == [ctr |-> [next |-> NoId, max |-> 0], n |-> 0, handed |-> {}]

\* a thread that is not inside _upsert_song_document
NoThread == 0
IdleThread ==
    [pc |-> "idle", key |-> 1, dirty |-> FALSE, attempt |-> 0, oid |-> 0,
     existing_id |-> NoId, new_id |-> NoId, song_id |-> NoId, retries |-> 0,
     raised |-> FALSE, created |-> FALSE,
     summary |-> [inserted |-> 0, updated |-> 0, errors |-> 0]]

\* no group is being aggregated
NoDocument == <<>>
IdleGroup ==
    [pc |-> "idle", records |-> <<>>, document |-> NoDocument, upserts |-> 0]

\* no course is being turned into a chart record
NoCoerce == ""
IdleChart ==
    [pc |-> "idle",
     course |-> [canonical |-> "Oni", mode |-> "standard", start_blocks |-> 0,
                 end_blocks |-> 0, total_notes |-> 0, hit_notes |-> 0,
                 branch |-> FALSE, branch_sections |-> {}, segments |-> 0],
     coerce |-> NoCoerce,
     record |-> [course |-> "Oni", mode |-> "standard", valid |-> FALSE,
                 issues |-> {}, coerced |-> FALSE]]

\* no import record is being compared with a variant of it
NoText == <<>>
IdleKeys ==
    [base |-> [relative_path |-> NoText, relative_dir |-> NoText,
               dir_url |-> NoText, audio_hash |-> ""],
     variant |-> [relative_path |-> NoText, relative_dir |-> NoText,
                  dir_url |-> NoText, audio_hash |-> ""],
     edits |-> 0]

\* the watcher's handler after start_watcher: no timer, no event yet.
\* timers holds every threading.Timer the handler created, the last one being
\* self._timer: its state ("waiting", "cancelled", "blocked": it fired and its
\* callback waits for _scan_lock, "scanning": the callback is inside
\* _scan_impl, "done"), the clock value at which it is due, and whether a
\* watcher-triggered scan was running when it was created.  bursts counts the
\* events that found no timer waiting.
NoPath == "<none>"
IdleWatcher ==
    [timer |-> "none", events |-> 0, scheduled |-> 0, cancelled |-> 0,
     callbacks |-> 0,
     last |-> [is_directory |-> FALSE, src_path |-> NoPath, dest_path |-> NoPath],
     called |-> FALSE, cancelledNow |-> FALSE,
     clock |-> 0, timers |-> <<>>, bursts |-> 0]

\* parse_tja before its first line: None for a course, a WAVE, a measure
NoCourse == "none"
NoWave == "none"
NoMeasure == -1
NoPreview == <<>>

\* the courses a modelled chart file declares, by CourseInfo.canonical
ParserCourses == {"Oni", "Dojo"}

\* CourseInfo(canonical, mode) with its _CourseParseState; listed says that
\* the course is in parsed.courses, open that current_segment is not None
\* (it is then the last element of segments)
NewCourse(mode) ==
    [listed |-> FALSE, mode |-> mode, start_blocks |-> 0, end_blocks |-> 0,
     total_notes |-> 0, hit_notes |-> 0, measures |-> 0,
     first_note_preview |-> NoPreview, unknown_directives |-> 0,
     branch |-> FALSE, branch_sections |-> {},
     measure_index |-> 0, segments |-> <<>>, open |-> FALSE,
     gogo_start |-> NoMeasure]

\* the locals of parse_tja before the loop over the lines
FreshParser ==
    [courses |-> [n \in ParserCourses |->
                     NewCourse(IF n = "Dojo" THEN "dojo" ELSE "standard")],
     active_course |-> NoCourse, current_notes_course |-> NoCourse,
     parsing_notes |-> FALSE, current_wave |-> NoWave, wave |-> NoWave,
     unknown_directives |-> 0]

\* no file is being parsed; p are parse_tja's locals, line the line read
\* last, lines the number of lines read and limit how many may be read;
\* seen is the history of the WAVE lines: the value of the last one (NoWave
\* when it was empty) and the last value that was not empty
IdleParser ==
    [pc |-> "idle", p |-> FreshParser, line |-> <<>>, lines |-> 0, limit |-> 0,
     seen |-> <<NoWave, NoWave>>]

\* the function-level specifications are not running
FnIdle == cg = IdleGroup /\ cc = IdleChart /\ gk = IdleKeys /\ wt = IdleWatcher /\ pt = IdleParser

\* what the walk of an empty tree produces
NoWalk ==
    WalkFiles(FALSE, [p \in Paths |-> NoFile], [p \in Paths |-> NoState], {})

\* the state of the loop over the groups before its first group
NoUpserts ==
    [songs |-> <<>>, ctr |-> [next |-> NoId, max |-> 0], summary |-> ZeroSummary,
     refreshed |-> {}, raised |-> FALSE, song_id_by_key |-> <<>>]

\* a caller that is not inside scan().  Inside, it holds what the pass read
\* when it started (songs0, state0, seq0, ctr0, now0), what its walk of the
\* tree produced (w), where the loop over the groups left (up) and the
\* summary it returns.
IdleCaller ==
    [pc |-> "idle", full |-> FALSE, songs0 |-> <<>>,
     state0 |-> [p \in Paths |-> NoState], seq0 |-> 0,
     ctr0 |-> [next |-> NoId, max |-> 0], now0 |-> 0, w |-> NoWalk,
     up |-> NoUpserts, summary |-> ZeroSummary]

NoTrace ==
    [root |-> FALSE, present |-> {}, skipped |-> {}, dirty |-> {}, keys |-> {},
     refreshed |-> {}, seen |-> {}, unseen |-> {}, counted |-> {},
     failed |-> <<>>]

Files == [tv : 1..MaxTja, ac : 0..MaxAudio]

\* the scanner right after construction, the tree empty, nobody inside it
ScannerIdle ==
    /\ fs = [root |-> TRUE, files |-> [p \in Paths |-> NoFile]]
    /\ songs = <<>>
    /\ state = [p \in Paths |-> NoState]
    /\ seq = 0
    /\ ctr = [next |-> NoId, max |-> 0]
    /\ now = 1
    /\ passes = 0
    /\ changes = 0
    /\ summary = ZeroSummary
    /\ lastKind = "none"
    /\ prevKind = "none"
    /\ quiet = FALSE
    /\ fsDirty = FALSE
    /\ stDirty = FALSE
    /\ aborted = FALSE
    /\ faults = 0
    /\ trace = NoTrace
    /\ prevUnseen = {}
    /\ preSongs = <<>>
    /\ preState = [p \in Paths |-> NoState]
    /\ preCtr = [next |-> NoId, max |-> 0]
    /\ th = [t \in Threads |-> IdleThread]
    /\ locks = [n \in 1..MaxAudio |-> NoThread]
    /\ sc = [c \in Callers |-> IdleCaller]
    /\ scanLock = NoCaller
    /\ ad = NoOthers

Init == ScannerIdle /\ FnIdle

\* ------------------------------------------------- the tree changes (inputs)
\* a chart file is created or rewritten, with or without companion audio
WriteFile(p, f) ==
    /\ changes < MaxChanges
    /\ fs.root
    /\ fs.files[p] # f
    /\ fs' = [fs EXCEPT !.files[p] = f]
    /\ changes' = changes + 1
    /\ fsDirty' = TRUE
    /\ UNCHANGED passVars
    /\ UNCHANGED upsertVars

\* a chart file is deleted
RemoveFile(p) ==
    /\ changes < MaxChanges
    /\ fs.files[p] # NoFile
    /\ fs' = [fs EXCEPT !.files[p] = NoFile]
    /\ changes' = changes + 1
    /\ fsDirty' = TRUE
    /\ UNCHANGED passVars
    /\ UNCHANGED upsertVars

\* the songs directory is removed, with everything in it
RemoveRoot ==
    /\ changes < MaxChanges
    /\ fs.root
    /\ fs' = [root |-> FALSE, files |-> [p \in Paths |-> NoFile]]
    /\ changes' = changes + 1
    /\ fsDirty' = TRUE
    /\ UNCHANGED passVars
    /\ UNCHANGED upsertVars

\* the songs directory is created again
CreateRoot ==
    /\ changes < MaxChanges
    /\ ~fs.root
    /\ fs' = [fs EXCEPT !.root = TRUE]
    /\ changes' = changes + 1
    /\ fsDirty' = TRUE
    /\ UNCHANGED passVars
    /\ UNCHANGED upsertVars

\* a state row holds a record that _record_from_state cannot rebuild (a row
\* written by another version of the scanner, or edited by hand)
SnapshotLost(p) ==
    /\ changes < MaxChanges
    /\ state[p].tv # 0 /\ state[p].snap
    /\ state' = [state EXCEPT ![p].snap = FALSE]
    /\ changes' = changes + 1
    /\ stDirty' = TRUE
    /\ UNCHANGED <<fs, fsDirty, songs, seq, ctr, now, passes, summary, lastKind,
                   prevKind, quiet, aborted, faults, trace, prevUnseen, preSongs,
                   preState, preCtr>>
    /\ UNCHANGED upsertVars

\* ------------------------------------------------------------------ scan()
\* the ids that rows of the collection got between before and after
AllocatedIn(before, after) ==
    {after[i].id : i \in {j \in DOMAIN after :
        /\ after[j].id # NoId
        /\ ~\E k \in DOMAIN before :
              before[k]["_id"] = after[j]["_id"] /\ before[k].id = after[j].id}}

\* what one pass of _scan_impl writes
PassWrites(full, failKey) ==
    LET r == ScanImpl(full, failKey, fs.files, fs.root, songs, state, seq, ctr, now)
    IN /\ songs' = r.songs
       /\ state' = r.state
       /\ seq' = r.seq
       /\ ctr' = r.ctr
       /\ summary' = r.summary
       /\ trace' = r.trace
       /\ prevUnseen' = trace.unseen
       /\ stDirty' = FALSE
       /\ aborted' = r.raised
       /\ faults' = IF failKey = <<>> THEN faults ELSE faults + 1
       /\ now' = now + 1
       /\ passes' = passes + 1
       /\ prevKind' = lastKind
       /\ lastKind' = IF full THEN "full" ELSE "incr"
       /\ quiet' = (passes > 0 /\ ~fsDirty)
       /\ fsDirty' = FALSE
       /\ preSongs' = songs
       /\ preState' = state
       /\ preCtr' = ctr
       /\ ad' = [ad EXCEPT !.handed = @ \cup
                      AllocatedIn(CleanupInvalidGroupKeys(songs), r.songs)]

\* scan(full=...): one pass under scan_lock
PassEffect(full, failKey) ==
    /\ PassWrites(full, failKey)
    /\ UNCHANGED <<fs, changes>>
    /\ UNCHANGED <<th, locks, callerVars, fnVars>>

Scan(full) ==
    /\ passes < MaxPasses
    /\ PassEffect(full, <<>>)

\* a pass in which the driver raises, in the atomic upsert of group key k, an
\* error that is not a duplicate-key error
ScanDriverFailure(full, k) ==
    /\ passes < MaxPasses
    /\ faults < MaxFaults
    /\ fs.root
    /\ \E p \in Paths :
          /\ fs.files[p] # NoFile
          /\ compute_group_key(FileRecord(full, p, state[p], fs.files[p])) = k
    /\ PassEffect(full, <<k>>)

\* a pass in which the driver raises DuplicateKeyError in all three attempts
\* of the atomic upsert of group key k, which the collection holds
ScanUpsertGivesUp(full, k) ==
    /\ passes < MaxPasses
    /\ faults < MaxFaults
    /\ fs.root
    /\ HasKey(songs, k)
    /\ \E p \in Paths :
          /\ fs.files[p] # NoFile
          /\ compute_group_key(FileRecord(full, p, state[p], fs.files[p])) = k
    /\ PassEffect(full, <<k, "retries">>)

vars == <<fs, songs, state, seq, ctr, now, passes, changes, summary, lastKind,
          prevKind, quiet, fsDirty, stDirty, aborted, faults, trace, prevUnseen,
          preSongs, preState, preCtr, th, locks, sc, scanLock, fnVars, ad>>

TreeChange ==
    \/ \E p \in Paths, f \in Files : WriteFile(p, f)
    \/ \E p \in Paths : RemoveFile(p)
    \/ RemoveRoot
    \/ CreateRoot
    \/ \E p \in Paths : SnapshotLost(p)

Next ==
    \/ TreeChange
    \/ \E full \in BOOLEAN : Scan(full)

Spec == Init /\ [][Next]_vars

GroupKeys ==
    [kind : {"audio"}, n : 1..MaxAudio] \cup [kind : {"missing"}, n : Paths]

\* ----------------------------------------------- the database is shared
\* The songs and seq collections are also written by the admin song-creation
\* route of app.py and by a second SongScanner instance (another worker
\* process) that scans the same tree.

\* group_key of a row that has none: doc.get('group_key') is None
NoGroupKey == [kind |-> "none", n |-> 0]

\* app.py _get_next_song_id: seq and the highest id are read for each song
AppNextSongId(seqValue, coll) ==
    (IF HighestSongId(coll) > seqValue THEN HighestSongId(coll) ELSE seqValue) + 1

\* the row route_admin_songs_new_post inserts: id and order, no group_key
\* and no managed_by_scanner
AdminRow(id, oid, enabled) ==
    [id |-> id, order |-> id, enabled |-> enabled, managed_by_scanner |-> FALSE,
     group_key |-> NoGroupKey, charts |-> <<>>, _id |-> oid]

\* route_admin_songs_new_post: insert_one of the new song, then seq is set
AdminNewSong(enabled) ==
    /\ ad.n < MaxOthers
    /\ songs' = Append(songs, AdminRow(AppNextSongId(seq, songs), NextOid(songs),
                                       enabled))
    /\ seq' = AppNextSongId(seq, songs)
    /\ ad' = [ad EXCEPT !.n = @ + 1]
    /\ UNCHANGED <<fs, changes, fsDirty, state, ctr, now, passes, summary,
                   lastKind, prevKind, quiet, stDirty, aborted, faults, trace,
                   prevUnseen, preSongs, preState, preCtr>>
    /\ UNCHANGED <<th, locks, callerVars, fnVars>>

\* scan(full=...) of the second instance: the same pass with its own counter
OtherScannerPass(full) ==
    /\ ad.n < MaxOthers
    /\ LET r == ScanImpl(full, <<>>, fs.files, fs.root, songs, state, seq,
                         ad.ctr, now)
       IN /\ songs' = r.songs
          /\ state' = r.state
          /\ seq' = r.seq
          /\ ad' = [ad EXCEPT !.ctr = r.ctr, !.n = @ + 1]
    /\ now' = now + 1
    /\ UNCHANGED <<fs, changes, fsDirty, ctr, passes, summary, lastKind,
                   prevKind, quiet, stDirty, aborted, faults, trace, prevUnseen,
                   preSongs, preState, preCtr>>
    /\ UNCHANGED <<th, locks, callerVars, fnVars>>

\* the database the scanner finds at its first pass: the admin route has
\* created songs (and may have deleted them again), so seq is at least the
\* highest id
SharedInit ==
    /\ fs = [root |-> TRUE, files |-> [p \in Paths |-> NoFile]]
    /\ \E n \in 0..1, v \in 0..2 :
          /\ v >= n
          /\ songs = [i \in 1..n |-> AdminRow(i, i, TRUE)]
          /\ seq = v
    /\ state = [p \in Paths |-> NoState]
    /\ ctr = [next |-> NoId, max |-> 0]
    /\ now = 1
    /\ passes = 0
    /\ changes = 0
    /\ summary = ZeroSummary
    /\ lastKind = "none"
    /\ prevKind = "none"
    /\ quiet = FALSE
    /\ fsDirty = FALSE
    /\ stDirty = FALSE
    /\ aborted = FALSE
    /\ faults = 0
    /\ trace = NoTrace
    /\ prevUnseen = {}
    /\ preSongs = <<>>
    /\ preState = [p \in Paths |-> NoState]
    /\ preCtr = [next |-> NoId, max |-> 0]
    /\ th = [t \in Threads |-> IdleThread]
    /\ locks = [n \in 1..MaxAudio |-> NoThread]
    /\ sc = [c \in Callers |-> IdleCaller]
    /\ scanLock = NoCaller
    /\ ad = NoOthers
    /\ FnIdle

\* the files written while the database is shared: one version of the chart
SharedFiles == [tv : {1}, ac : 0..MaxAudio]

\* the passes are incremental: what a pass does to ids and to foreign rows
\* does not depend on its mode
NextShared ==
    \/ \E p \in Paths, f \in SharedFiles : WriteFile(p, f)
    \/ RemoveRoot
    \/ CreateRoot
    \/ Scan(FALSE)
    \/ \E k \in GroupKeys : ScanDriverFailure(FALSE, k)
    \/ OtherScannerPass(FALSE)
    \/ AdminNewSong(TRUE)

SpecShared == SharedInit /\ [][NextShared]_vars

\* the passes of Next, and incremental passes in which the driver fails
NextFault ==
    \/ Next
    \/ \E k \in GroupKeys : ScanDriverFailure(FALSE, k)
    \/ \E k \in GroupKeys : ScanUpsertGivesUp(FALSE, k)

SpecFault == Init /\ [][NextFault]_vars

\* ------------------------------------ concurrent _upsert_song_document calls
\* Threads of one scanner call _upsert_song_document, each for the group of
\* one chart file with audio th[t].key; th[t].dirty tells whether the key is
\* in the dirty_groups the caller passes.  A thread's record holds its
\* position (pc), the attempt of the retry loop, what it keeps of result_doc
\* (oid, existing_id), new_id, song_id, its summary and what its call added
\* to the metric duplicate_key_retries_total (retries); raised tells that the
\* call ended with an exception, created that its find_one_and_update
\* inserted the row.
ThreadKey(t) == [kind |-> "audio", n |-> th[t].key]

ThreadDocument(t) ==
    BuildSongDocument(ThreadKey(t),
                      <<MakeRecord(1, [tv |-> 1, ac |-> th[t].key])>>)

ThreadDirtyGroups(t) == IF th[t].dirty THEN {ThreadKey(t)} ELSE {}

\* the collection after an earlier scanner imported the group of audio 1
SongsWithOneRow ==
    LET k == [kind |-> "audio", n |-> 1]
    IN UpsertSongDocument(
           [songs |-> <<>>, ctr |-> [next |-> NoId, max |-> 0],
            summary |-> ZeroSummary, refreshed |-> {}],
           k, BuildSongDocument(k, <<MakeRecord(1, [tv |-> 1, ac |-> 1])>>),
           {}, 0, 1, "none").songs

\* the collection is empty or holds the row of one group; every thread is
\* about to enter _upsert_song_document of a scanner that allocated no id yet
UpsertInit ==
    /\ fs = [root |-> TRUE, files |-> [p \in Paths |-> NoFile]]
    /\ songs \in {<<>>, SongsWithOneRow}
    /\ state = [p \in Paths |-> NoState]
    /\ seq = 0
    /\ ctr = [next |-> NoId, max |-> 0]
    /\ now = 2
    /\ passes = 0
    /\ changes = 0
    /\ summary = ZeroSummary
    /\ lastKind = "none"
    /\ prevKind = "none"
    /\ quiet = FALSE
    /\ fsDirty = FALSE
    /\ stDirty = FALSE
    /\ aborted = FALSE
    /\ faults = 0
    /\ trace = NoTrace
    /\ prevUnseen = {}
    /\ preSongs = <<>>
    /\ preState = [p \in Paths |-> NoState]
    /\ preCtr = [next |-> NoId, max |-> 0]
    /\ th \in [Threads -> {[IdleThread EXCEPT !.pc = "start", !.key = k, !.dirty = d] :
                              k \in 1..MaxAudio, d \in BOOLEAN}]
    /\ locks = [n \in 1..MaxAudio |-> NoThread]
    /\ sc = [c \in Callers |-> IdleCaller]
    /\ scanLock = NoCaller
    /\ ad = NoOthers
    /\ FnIdle

scanVars == <<fs, state, seq, now, passes, changes, summary, lastKind,
              prevKind, quiet, fsDirty, stDirty, aborted, faults, trace, prevUnseen,
              preSongs, preState, preCtr, auxVars>>

\* _group_key_lock: lock.acquire() on the lock of the thread's key
AcquireLock(t) ==
    /\ th[t].pc = "start"
    /\ ValidGroupKey(ThreadKey(t))
    /\ locks[th[t].key] = NoThread
    /\ locks' = [locks EXCEPT ![th[t].key] = t]
    /\ th' = [th EXCEPT ![t].pc = "find", ![t].attempt = 0]
    /\ UNCHANGED <<songs, ctr>>
    /\ UNCHANGED scanVars

\* an attempt of the retry loop in which find_one_and_update returns
FindAttempt(t) ==
    /\ th[t].pc = "find"
    /\ locks[th[t].key] = t
    /\ th[t].attempt < MaxAttempts
    /\ LET found == FindOneAndUpdate(songs, ThreadKey(t),
                                     InsertDocument(ThreadDocument(t), ThreadKey(t)))
       IN /\ songs' = found.coll
          /\ th' = [th EXCEPT ![t].pc = "release",
                              ![t].oid = found.doc["_id"],
                              ![t].existing_id = ExistingId(found.doc),
                              ![t].created = ~HasKey(songs, ThreadKey(t))]
    /\ UNCHANGED <<ctr, locks>>
    /\ UNCHANGED scanVars

\* the handler of DuplicateKeyError forgets the metric
CountRetryNever(thread) == thread

\* self._metrics.increment('duplicate_key_retries_total'), counted per call
CountRetry(thread) == [thread EXCEPT !.retries = @ + 1]

\* an attempt in which the driver raises DuplicateKeyError, which it does
\* only for a key the collection holds; after the last attempt result_doc is
\* still None
DuplicateKey(t) ==
    /\ th[t].pc = "find"
    /\ locks[th[t].key] = t
    /\ th[t].attempt < MaxAttempts
    /\ HasKey(songs, ThreadKey(t))
    /\ th' = [th EXCEPT ![t] = [CountRetry(th[t]) EXCEPT
                                   !.attempt = @ + 1,
                                   !.pc = IF th[t].attempt + 1 = MaxAttempts
                                          THEN "release" ELSE "find"]]
    /\ UNCHANGED <<songs, ctr, locks>>
    /\ UNCHANGED scanVars

\* lock.release(), then the branch on result_doc and on existing_id
ReleaseLock(t) ==
    /\ th[t].pc = "release"
    /\ locks[th[t].key] = t
    /\ locks' = [locks EXCEPT ![th[t].key] = NoThread]
    /\ th' = IF th[t].oid = 0
             THEN [th EXCEPT ![t].pc = "done", ![t].summary.errors = @ + 1]
             ELSE IF th[t].existing_id = NoId
             THEN [th EXCEPT ![t].pc = "alloc"]
             ELSE [th EXCEPT ![t].pc = "refresh",
                             ![t].song_id = th[t].existing_id]
    /\ UNCHANGED <<songs, ctr>>
    /\ UNCHANGED scanVars

\* _get_next_song_id up to result = self._next_song_id
AllocRead(t) ==
    /\ th[t].pc = "alloc"
    /\ ctr' = EnsureSequence(ctr, seq, songs)
    /\ th' = [th EXCEPT ![t].pc = "inc", ![t].new_id = ctr'.next]
    /\ UNCHANGED <<songs, locks>>
    /\ UNCHANGED scanVars

\* the rest of _get_next_song_id: the counter is advanced, the maximum kept
AllocInc(t) ==
    /\ th[t].pc = "inc"
    /\ ctr' = [next |-> ctr.next + 1, max |-> Max(ctr.max, th[t].new_id)]
    /\ th' = [th EXCEPT ![t].pc = "assign"]
    /\ UNCHANGED <<songs, locks>>
    /\ UNCHANGED scanVars

\* update_one(song_filter, {'$set': {'id': new_id, 'order': new_id}})
AssignId(t) ==
    /\ th[t].pc = "assign"
    /\ songs' = UpdateOneSet(songs, th[t].oid,
                             [id |-> th[t].new_id, order |-> th[t].new_id])
    /\ th' = [th EXCEPT ![t].pc = "refresh", ![t].song_id = th[t].new_id,
                        ![t].summary.inserted = @ + 1]
    /\ UNCHANGED <<ctr, locks>>
    /\ UNCHANGED scanVars

\* needs_refresh and the $set of the base document
Refresh(t) ==
    /\ th[t].pc = "refresh"
    /\ LET inserted == th[t].existing_id = NoId
           key == ThreadKey(t)
           dirty_groups == ThreadDirtyGroups(t)
       IN IF NeedsRefresh(inserted, key, dirty_groups)
          THEN /\ songs' = UpdateOneSet(songs, th[t].oid,
                                        BaseDocument(ThreadDocument(t), key))
               /\ th' = [th EXCEPT ![t].pc = "sync",
                            ![t].summary.updated =
                                IF CountsAsUpdated(inserted, key, dirty_groups)
                                THEN @ + 1 ELSE @]
          ELSE /\ songs' = songs
               /\ th' = [th EXCEPT ![t].pc = "done"]
    /\ UNCHANGED <<ctr, locks>>
    /\ UNCHANGED scanVars

\* _sync_song_charts, then return song_id
SyncCharts(t) ==
    /\ th[t].pc = "sync"
    /\ LET row == RowOfOid(songs, th[t].oid)
       IN songs' = UpdateOneSet(songs, th[t].oid,
                      [charts |-> SyncSongCharts(row.charts,
                                                 ThreadDocument(t).charts, now)])
    /\ th' = [th EXCEPT ![t].pc = "done"]
    /\ UNCHANGED <<ctr, locks>>
    /\ UNCHANGED scanVars

NextUpsert ==
    \E t \in Threads :
        \/ AcquireLock(t)
        \/ FindAttempt(t)
        \/ DuplicateKey(t)
        \/ ReleaseLock(t)
        \/ AllocRead(t)
        \/ AllocInc(t)
        \/ AssignId(t)
        \/ Refresh(t)
        \/ SyncCharts(t)

SpecUpsert == UpsertInit /\ [][NextUpsert]_vars

\* ------------------------------------------------- concurrent scan() calls
\* The admin endpoint, the watcher callback and startup call scan() of the
\* one scanner, each on its own thread.  Inside _scan_impl a caller goes
\* through the reads of the collections, the walk of the tree, the loop over
\* the groups and the writes that end the pass, one step each.

\* the trees the callers scan: per path no chart file, one with audio, or
\* one without
ScannedFiles == {NoFile, [tv |-> 1, ac |-> 1], [tv |-> 1, ac |-> NoAudio]}

ScanCallersInit ==
    /\ fs \in [root : {TRUE}, files : [Paths -> ScannedFiles]]
             \cup {[root |-> FALSE, files |-> [p \in Paths |-> NoFile]]}
    /\ songs = <<>>
    /\ state = [p \in Paths |-> NoState]
    /\ seq = 0
    /\ ctr = [next |-> NoId, max |-> 0]
    /\ now = 1
    /\ passes = 0
    /\ changes = 0
    /\ summary = ZeroSummary
    /\ lastKind = "none"
    /\ prevKind = "none"
    /\ quiet = FALSE
    /\ fsDirty = FALSE
    /\ stDirty = FALSE
    /\ aborted = FALSE
    /\ faults = 0
    /\ trace = NoTrace
    /\ prevUnseen = {}
    /\ preSongs = <<>>
    /\ preState = [p \in Paths |-> NoState]
    /\ preCtr = [next |-> NoId, max |-> 0]
    /\ th = [t \in Threads |-> IdleThread]
    /\ locks = [n \in 1..MaxAudio |-> NoThread]
    /\ sc = [c \in Callers |-> IdleCaller]
    /\ scanLock = NoCaller
    /\ ad = NoOthers
    /\ FnIdle

passHistory == <<changes, summary, lastKind, prevKind, quiet, fsDirty, stDirty,
                 aborted, faults, trace, prevUnseen, preSongs, preState, preCtr>>

\* perform_song_scan(full=...) is called: by a request to the admin endpoint,
\* by the watcher's timer, or at startup
RequestScan(c, full) ==
    /\ passes < MaxPasses
    /\ sc[c].pc = "idle"
    /\ sc' = [sc EXCEPT ![c] = [IdleCaller EXCEPT !.pc = "waiting", !.full = full]]
    /\ passes' = passes + 1
    /\ UNCHANGED <<fs, songs, state, seq, ctr, now, scanLock, th, locks>>
    /\ UNCHANGED passHistory
    /\ UNCHANGED <<fnVars, ad>>

ScanLockIgnored(lock) == TRUE

\* with self._scan_lock: the lock can be taken when nobody holds it
ScanLockFree(lock) == lock = NoCaller

\* scan(): the caller gets _scan_lock and enters _scan_impl
EnterScan(c) ==
    /\ sc[c].pc = "waiting"
    /\ ScanLockFree(scanLock)
    /\ scanLock' = c
    /\ sc' = [sc EXCEPT ![c].pc = "read"]
    /\ UNCHANGED <<fs, songs, state, seq, ctr, now, passes, th, locks>>
    /\ UNCHANGED passHistory
    /\ UNCHANGED <<fnVars, ad>>

\* _cleanup_invalid_group_keys, state_docs and managed_songs are read; the
\* pass returns at once when the songs directory is missing
ReadCollections(c) ==
    /\ sc[c].pc = "read"
    /\ songs' = CleanupInvalidGroupKeys(songs)
    /\ sc' = [sc EXCEPT ![c].pc = IF fs.root THEN "walk" ELSE "leave",
                        ![c].songs0 = songs', ![c].state0 = state,
                        ![c].seq0 = seq, ![c].ctr0 = ctr, ![c].now0 = now]
    /\ UNCHANGED <<fs, state, seq, ctr, now, passes, scanLock, th, locks>>
    /\ UNCHANGED passHistory
    /\ UNCHANGED <<fnVars, ad>>

\* the loop over _iter_tja_files()
WalkTree(c) ==
    /\ sc[c].pc = "walk"
    /\ sc' = [sc EXCEPT ![c].pc = "upsert",
                        ![c].w = WalkFiles(sc[c].full, fs.files, sc[c].state0,
                                           {p \in Paths : fs.files[p].tv # 0})]
    /\ UNCHANGED <<fs, songs, state, seq, ctr, now, passes, scanLock, th, locks>>
    /\ UNCHANGED passHistory
    /\ UNCHANGED <<fnVars, ad>>

\* the loop over sorted(aggregated_records.keys())
UpsertAll(c) ==
    /\ sc[c].pc = "upsert"
    /\ LET up == UpsertGroups(
                    [songs |-> songs, ctr |-> ctr,
                     summary |-> [ZeroSummary EXCEPT
                                    !.found = Cardinality(sc[c].w.present),
                                    !.skipped = Cardinality(sc[c].w.skipped)],
                     refreshed |-> {}, raised |-> FALSE, song_id_by_key |-> <<>>],
                    SortKeys(sc[c].w.keys), sc[c].w.recordsOf, sc[c].w.dirty,
                    seq, now, <<>>)
       IN /\ songs' = up.songs
          /\ ctr' = up.ctr
          /\ sc' = [sc EXCEPT ![c].pc = "finish", ![c].up = up]
    /\ UNCHANGED <<fs, state, seq, now, passes, scanLock, th, locks>>
    /\ UNCHANGED passHistory
    /\ UNCHANGED <<fnVars, ad>>

\* the state rows, _update_sequence, the prune and the tombstone loop
FinishPass(c) ==
    /\ sc[c].pc = "finish"
    /\ LET r == ScanState(<<>>, fs.files, sc[c].songs0, sc[c].state0, seq, sc[c].w,
                          [sc[c].up EXCEPT !.songs = songs, !.ctr = ctr])
       IN /\ songs' = r.songs
          /\ state' = r.state
          /\ seq' = r.seq
          /\ sc' = [sc EXCEPT ![c].pc = "leave", ![c].summary = r.summary]
    /\ now' = now + 1
    /\ UNCHANGED <<fs, ctr, passes, scanLock, th, locks>>
    /\ UNCHANGED passHistory
    /\ UNCHANGED <<fnVars, ad>>

\* _scan_impl returns and scan() releases _scan_lock
LeaveScan(c) ==
    /\ sc[c].pc = "leave"
    /\ scanLock' = NoCaller
    /\ sc' = [sc EXCEPT ![c] = IdleCaller]
    /\ UNCHANGED <<fs, songs, state, seq, ctr, now, passes, th, locks>>
    /\ UNCHANGED passHistory
    /\ UNCHANGED <<fnVars, ad>>

NextScanCallers ==
    \E c \in Callers :
        \/ \E full \in BOOLEAN : RequestScan(c, full)
        \/ EnterScan(c)
        \/ ReadCollections(c)
        \/ WalkTree(c)
        \/ UpsertAll(c)
        \/ FinishPass(c)
        \/ LeaveScan(c)

SpecScanCallers == ScanCallersInit /\ [][NextScanCallers]_vars


\* ------------------------------------------------------ calls that return
\* The calls of SpecUpsert and of SpecScanCallers under fair scheduling,
\* with the exits by exception.  In _group_key_lock a thread first takes
\* _group_locks_guard to look the lock of its key up: the thread at "lookup"
\* holds the guard, a thread at "guard" waits for it.
GuardFree == \A u \in Threads : th[u].pc # "lookup"

\* with self._group_locks_guard:
EnterGuard(t) ==
    /\ th[t].pc = "guard"
    /\ GuardFree
    /\ th' = [th EXCEPT ![t].pc = "lookup"]
    /\ UNCHANGED <<songs, ctr, locks>>
    /\ UNCHANGED scanVars

\* the lock of the key is looked up or created, the guard is released
LeaveGuard(t) ==
    /\ th[t].pc = "lookup"
    /\ th' = [th EXCEPT ![t].pc = "start"]
    /\ UNCHANGED <<songs, ctr, locks>>
    /\ UNCHANGED scanVars

\* find_one_and_update raises an error that is no DuplicateKeyError: the
\* handler re-raises it, the finally clause of _group_key_lock releases the
\* lock and the call ends with the exception
FindRaises(t) ==
    /\ th[t].pc = "find"
    /\ locks[th[t].key] = t
    /\ locks' = [locks EXCEPT ![th[t].key] = NoThread]
    /\ th' = [th EXCEPT ![t].pc = "done", ![t].raised = TRUE]
    /\ UNCHANGED <<songs, ctr>>
    /\ UNCHANGED scanVars

\* update_one of the id assignment raises a PyMongoError: the handler counts
\* an error and the call returns None; the row stays without id
AssignFails(t) ==
    /\ th[t].pc = "assign"
    /\ th' = [th EXCEPT ![t].pc = "done", ![t].summary.errors = @ + 1]
    /\ UNCHANGED <<songs, ctr, locks>>
    /\ UNCHANGED scanVars

\* update_one of the $set refresh raises a PyMongoError: the handler counts
\* an error and the call goes on to the chart synchronisation
RefreshFails(t) ==
    /\ th[t].pc = "refresh"
    /\ NeedsRefresh(th[t].existing_id = NoId, ThreadKey(t), ThreadDirtyGroups(t))
    /\ th' = [th EXCEPT ![t].pc = "sync", ![t].summary.errors = @ + 1]
    /\ UNCHANGED <<songs, ctr, locks>>
    /\ UNCHANGED scanVars

\* _sync_song_charts raises: the handler logs it and the call returns
SyncFails(t) ==
    /\ th[t].pc = "sync"
    /\ th' = [th EXCEPT ![t].pc = "done"]
    /\ UNCHANGED <<songs, ctr, locks>>
    /\ UNCHANGED scanVars

\* a with statement that keeps the lock when its body raises
HeldOnRaise(c) == c

\* the holder of _scan_lock after the body of the with statement raised
ReleasedOnRaise(c) == NoCaller

\* _scan_impl raises: scan() leaves the with statement and the exception
\* reaches the caller
ScanRaises(c) ==
    /\ sc[c].pc \in {"read", "walk", "upsert", "finish"}
    /\ scanLock' = ReleasedOnRaise(c)
    /\ sc' = [sc EXCEPT ![c] = IdleCaller]
    /\ UNCHANGED <<fs, songs, state, seq, ctr, now, passes, th, locks>>
    /\ UNCHANGED passHistory
    /\ UNCHANGED <<fnVars, ad>>

\* the threads are about to call _upsert_song_document and no scan is
\* requested
UpsertCallsInit ==
    /\ fs = [root |-> TRUE, files |-> [p \in Paths |-> NoFile]]
    /\ songs \in {<<>>, SongsWithOneRow}
    /\ state = [p \in Paths |-> NoState]
    /\ seq = 0
    /\ ctr = [next |-> NoId, max |-> 0]
    /\ now = 2
    /\ passes = MaxPasses
    /\ changes = 0
    /\ summary = ZeroSummary
    /\ lastKind = "none"
    /\ prevKind = "none"
    /\ quiet = FALSE
    /\ fsDirty = FALSE
    /\ stDirty = FALSE
    /\ aborted = FALSE
    /\ faults = 0
    /\ trace = NoTrace
    /\ prevUnseen = {}
    /\ preSongs = <<>>
    /\ preState = [p \in Paths |-> NoState]
    /\ preCtr = [next |-> NoId, max |-> 0]
    /\ th \in [Threads -> {[IdleThread EXCEPT !.pc = "guard", !.key = k, !.dirty = d] :
                              k \in 1..MaxAudio, d \in BOOLEAN}]
    /\ locks = [n \in 1..MaxAudio |-> NoThread]
    /\ sc = [c \in Callers |-> IdleCaller]
    /\ scanLock = NoCaller
    /\ ad = NoOthers
    /\ FnIdle

LiveInit == UpsertCallsInit \/ ScanCallersInit

\* the statements of a thread and of a caller: the scheduler runs the
\* thread, and a database operation ends, with a result or with an error;
\* the requests for a scan are not among them
ThreadStep(t) ==
    \/ FindRaises(t)
    \/ DuplicateKey(t)
    \/ AssignFails(t)
    \/ RefreshFails(t)
    \/ SyncFails(t)
    \/ EnterGuard(t)
    \/ LeaveGuard(t)
    \/ AcquireLock(t)
    \/ ReleaseLock(t)
    \/ AllocRead(t)
    \/ AllocInc(t)
    \/ AssignId(t)
    \/ FindAttempt(t)
    \/ Refresh(t)
    \/ SyncCharts(t)
CallerStep(c) ==
    \/ ScanRaises(c)
    \/ EnterScan(c)
    \/ LeaveScan(c)
    \/ ReadCollections(c)
    \/ WalkTree(c)
    \/ UpsertAll(c)
    \/ FinishPass(c)

NextLive ==
    \/ NextUpsert
    \/ NextScanCallers
    \/ \E t \in Threads : EnterGuard(t) \/ LeaveGuard(t) \/ FindRaises(t)
    \/ \E t \in Threads : AssignFails(t) \/ RefreshFails(t) \/ SyncFails(t)
    \/ \E c \in Callers : ScanRaises(c)

\* every thread that can run a statement runs one in the end
SpecLive ==
    /\ LiveInit
    /\ [][NextLive]_vars
    /\ \A t \in Threads : WF_vars(ThreadStep(t))
    /\ \A c \in Callers : WF_vars(CallerStep(c))


\* ------------------------------------------- one group, upsert after upsert
\* The loop of _scan_impl over the groups, for one group: the records of the
\* group are aggregated into a document (_build_song_document) and the
\* document is upserted (_upsert_song_document) with the group dirty, as
\* when a pass found one of its files new or changed.  Between two upserts
\* the files of the group change freely: the list of records is any list of
\* records of distinct chart files that share the audio of the group.
ChartVersions == 1..8
GroupKey == [kind |-> "audio", n |-> 1]

GroupRecords ==
    {MakeRecord(p, [tv |-> tv, ac |-> GroupKey.n]) :
        p \in Paths, tv \in ChartVersions}

\* the lists _build_song_document can be called with, in every order
GroupRecordLists ==
    {<<r>> : r \in GroupRecords}
    \cup {l \in GroupRecords \X GroupRecords : l[1].path # l[2].path}

GroupInit == ScannerIdle /\ FnIdle

groupFrame == <<fs, state, seq, passes, changes, lastKind, prevKind, quiet,
                fsDirty, stDirty, aborted, faults, trace, prevUnseen,
                preState, preCtr, th, locks, callerVars, cc, gk, wt, pt, ad>>

\* document = self._build_song_document(key, records)
AggregateGroup(records) ==
    /\ cg.pc = "idle"
    /\ cg.upserts < MaxUpserts
    /\ cg' = [cg EXCEPT !.pc = "built", !.records = records,
                        !.document = BuildSongDocument(GroupKey, records)]
    /\ UNCHANGED <<songs, ctr, now, summary, preSongs>>
    /\ UNCHANGED groupFrame

\* song_id = self._upsert_song_document(key, document, summary, dirty_groups)
UpsertGroup ==
    /\ cg.pc = "built"
    /\ LET r == UpsertSongDocument(
                    [songs |-> songs, ctr |-> ctr, summary |-> ZeroSummary,
                     refreshed |-> {}],
                    GroupKey, cg.document, {GroupKey}, seq, now, "none")
       IN /\ songs' = r.songs
          /\ ctr' = r.ctr
          /\ summary' = r.summary
    /\ preSongs' = songs
    /\ now' = now + 1
    /\ cg' = [IdleGroup EXCEPT !.upserts = cg.upserts + 1]
    /\ UNCHANGED groupFrame

NextGroup ==
    \/ \E records \in GroupRecordLists : AggregateGroup(records)
    \/ UpsertGroup

SpecGroup == GroupInit /\ [][NextGroup]_vars


\* ------------------------------------------------- _build_chart_records
\* One CourseInfo of the parser, reduced to what decides the chart record:
\* canonical, mode, the #START/#END counts, the note counts, the branch flag
\* and sections, and the number of dojo segments.  The issues the parser
\* itself records (unknown_course_numeric and the LEVEL issues) and
\* missing-level play no part in valid and are left out.
CanonicalCourses == {COURSE_ORDER[i] : i \in DOMAIN COURSE_ORDER}

\* what parse_tja can produce: hit notes are among the notes, segments are
\* opened for dojo courses only
CourseInfos ==
    {c \in [canonical : CanonicalCourses \cup {UNKNOWN_VALUE, "Dojo"},
            mode : {"standard", "dojo"},
            start_blocks : 0..MaxBlocks, end_blocks : 0..MaxBlocks,
            total_notes : 0..MaxNotes, hit_notes : 0..MaxNotes,
            branch : BOOLEAN, branch_sections : SUBSET {"START", "N", "E", "M"},
            segments : 0..1] :
        /\ c.hit_notes <= c.total_notes
        /\ (c.mode = "dojo") = (c.canonical = "Dojo")
        /\ c.mode = "standard" => c.segments = 0}

\* the values of self._coerce_unknown_course: None or a canonical course
CoerceValues == {NoCoerce, "Oni"}

IsCoerced(course, coerce) ==
    course.canonical = UNKNOWN_VALUE /\ course.mode = "standard" /\ coerce # NoCoerce

\* course_name after the coercion of an unknown standard course
CourseName(course, coerce) ==
    IF IsCoerced(course, coerce) THEN coerce ELSE course.canonical

\* the issues appended in the loop body
ChartIssues(course, coerce) ==
    (IF course.canonical = UNKNOWN_VALUE /\ course.mode = "standard" /\ coerce = NoCoerce
     THEN {"unknown-course"} ELSE {})
    \cup (IF course.start_blocks = 0 \/ course.end_blocks = 0
              \/ course.end_blocks < course.start_blocks
          THEN {"missing-chart-content"} ELSE {})
    \cup (IF course.total_notes = 0 \/ course.hit_notes = 0
          THEN {"empty-chart"} ELSE {})
    \cup (IF course.branch /\ ~({"N", "E", "M"} \subseteq course.branch_sections)
          THEN {"invalid-branch-sections"} ELSE {})
    \cup (IF course.mode = "dojo" /\ course.segments = 0
          THEN {"dojo_no_segments"} ELSE {})

BranchInvalidNever(course, issues) == FALSE

\* if course.branch and "invalid-branch-sections" in issues: valid = False
BranchInvalid(course, issues) ==
    course.branch /\ "invalid-branch-sections" \in issues

\* valid, as assigned for the mode and then overridden
ChartValid(course, coerce) ==
    IF BranchInvalid(course, ChartIssues(course, coerce)) THEN FALSE
    ELSE IF course.mode = "dojo" /\ course.segments = 0 THEN FALSE
    ELSE IF course.mode = "standard"
    THEN /\ CourseName(course, coerce) \in CanonicalCourses
         /\ "missing-chart-content" \notin ChartIssues(course, coerce)
         /\ "unknown-course" \notin ChartIssues(course, coerce)
         /\ course.total_notes > 0
         /\ course.hit_notes > 0
    ELSE course.total_notes > 0 /\ course.hit_notes > 0

\* the ChartRecord appended for the course
BuildChartRecord(course, coerce) ==
    [course |-> CourseName(course, coerce), mode |-> course.mode,
     valid |-> ChartValid(course, coerce),
     issues |-> ChartIssues(course, coerce),
     coerced |-> IsCoerced(course, coerce)]

\* every scanner variable the function-level specifications leave alone
scannerVars == <<fs, changes, fsDirty, passVars, th, locks, callerVars, ad>>

\* a course comes out of the parser, of a scanner with or without the
\* coercion of unknown courses
ChartInit ==
    /\ ScannerIdle
    /\ cg = IdleGroup
    /\ gk = IdleKeys
    /\ wt = IdleWatcher
    /\ pt = IdleParser
    /\ cc \in {[IdleChart EXCEPT !.pc = "parsed", !.course = c, !.coerce = k] :
                 c \in CourseInfos, k \in CoerceValues}

\* one iteration of the loop of _build_chart_records
BuildChartRecords ==
    /\ cc.pc = "parsed"
    /\ cc' = [cc EXCEPT !.pc = "built",
                        !.record = BuildChartRecord(cc.course, cc.coerce)]
    /\ UNCHANGED <<scannerVars, cg, gk, wt, pt>>

NextChart == BuildChartRecords

SpecChart == ChartInit /\ [][NextChart]_vars


\* ---------------------------------------------------- compute_group_key
\* The text fields of an import record as sequences of characters.  The
\* characters: letters in both cases, "/", "\\", " ", "nbsp" (U+00A0), "zw"
\* (U+200B) and the percent-encoded forms "%2F", "%70", "%20" of "/", "p"
\* and " " (three characters of the string, one element of the sequence).
\* compute_group_key above is this function over the modelled tree, where
\* every file lies in one folder and the paths are clean.
LowerOf(c) ==
    CASE c = "P" -> "p" [] c = "S" -> "s" [] c = "F" -> "f" [] c = "G" -> "g"
      [] OTHER -> c

UpperOf(c) ==
    CASE c = "p" -> "P" [] c = "s" -> "S" [] c = "f" -> "F" [] c = "g" -> "G"
      [] OTHER -> c

IsLetter(c) == LowerOf(c) # c \/ UpperOf(c) # c

\* urllib.parse.unquote
Unquote(text) ==
    [i \in DOMAIN text |->
        CASE text[i] = "%2F" -> "/" [] text[i] = "%70" -> "p"
          [] text[i] = "%20" -> " " [] OTHER -> text[i]]

\* what str.strip() strips and \s matches: U+00A0 is whitespace, U+200B is not
Whitespace == {" ", "nbsp"}

RECURSIVE Pick(_, _, _)
\* the elements of text at the positions of keep, from position i on
Pick(text, keep, i) ==
    IF i > Len(text) THEN <<>>
    ELSE (IF i \in keep THEN <<text[i]>> ELSE <<>>) \o Pick(text, keep, i + 1)

\* re.sub(r"X+", rep, text): every run of characters of X becomes rep
Collapse(text, X, rep) ==
    Pick([i \in DOMAIN text |-> IF text[i] \in X THEN rep ELSE text[i]],
         {i \in DOMAIN text : ~(text[i] \in X /\ i > 1 /\ text[i - 1] \in X)}, 1)

\* text.strip(chars)
Strip(text, X) ==
    LET inner == {i \in DOMAIN text : text[i] \notin X} IN
    IF inner = {} THEN <<>>
    ELSE SubSeq(text, CHOOSE i \in inner : \A j \in inner : i <= j,
                      CHOOSE i \in inner : \A j \in inner : i >= j)

\* _clean_metadata_value: zero-width characters are dropped, other space
\* characters become " ", runs of " " become one
CleanMetadataValue(text) ==
    Collapse(SelectSeq([i \in DOMAIN text |->
                           IF text[i] = "nbsp" THEN " " ELSE text[i]],
                       LAMBDA c : c # "zw"),
             {" "}, " ")

Casefold(text) == [i \in DOMAIN text |-> LowerOf(text[i])]

\* the steps of _normalise_group_text after unquote (NFC leaves every
\* character of the model as it is)
NormaliseSlashes(text, strip_slashes) ==
    LET collapsed == Collapse([i \in DOMAIN text |->
                                  IF text[i] = "\\" THEN "/" ELSE text[i]],
                              {"/"}, "/")
    IN IF strip_slashes THEN Strip(collapsed, {"/"}) ELSE collapsed

NormaliseSpaces(text) ==
    CleanMetadataValue(Collapse(Strip(text, Whitespace), Whitespace, " "))

normalise_group_text(value, casefold_value, strip_slashes) ==
    IF value = NoText THEN NoText
    ELSE IF casefold_value
    THEN Casefold(NormaliseSpaces(NormaliseSlashes(Unquote(value), strip_slashes)))
    ELSE NormaliseSpaces(NormaliseSlashes(Unquote(value), strip_slashes))

\* _sanitise_group_token (no modelled character is ":")
sanitise_group_token(token, fallback) ==
    IF Collapse(Strip(token, Whitespace), Whitespace, " ") = NoText
    THEN fallback
    ELSE Collapse(Strip(token, Whitespace), Whitespace, " ")

\* urlparse(dir_url).path for a text without scheme, query or fragment: a
\* text that starts with "//" has a network location up to the next "/"
UrlPath(url) ==
    IF Len(url) >= 2 /\ url[1] = "/" /\ url[2] = "/"
    THEN IF \E i \in 3..Len(url) : url[i] = "/"
         THEN SubSeq(url, CHOOSE i \in 3..Len(url) :
                              url[i] = "/" /\ \A j \in 3..(i - 1) : url[j] # "/",
                     Len(url))
         ELSE NoText
    ELSE url

\* Path(relative_path).parent.as_posix()
ParentPosix(path) ==
    IF \E i \in DOMAIN path : path[i] = "/"
    THEN SubSeq(path, 1, (CHOOSE i \in DOMAIN path :
                            path[i] = "/" /\ \A j \in (i + 1)..Len(path) : path[j] # "/") - 1)
    ELSE <<".">>

\* text.split("/", 1)[0]
FirstSegment(text) ==
    IF \E i \in DOMAIN text : text[i] = "/"
    THEN SubSeq(text, 1, (CHOOSE i \in DOMAIN text :
                            text[i] = "/" /\ \A j \in 1..(i - 1) : text[j] # "/") - 1)
    ELSE text

\* part in text
Contains(text, part) ==
    \E i \in 0..(Len(text) - Len(part)) : SubSeq(text, i + 1, i + Len(part)) = part

EndsWith(text, part) ==
    Len(part) <= Len(text)
    /\ SubSeq(text, Len(text) - Len(part) + 1, Len(text)) = part

FolderSource(record) ==
    IF record.dir_url # NoText /\ UrlPath(record.dir_url) # NoText
    THEN UrlPath(record.dir_url)
    ELSE IF record.relative_dir # NoText THEN record.relative_dir
    ELSE IF record.relative_path # NoText THEN ParentPosix(record.relative_path)
    ELSE NoText

\* normalised, "" when it is "."
FolderNormalised(record) ==
    IF normalise_group_text(FolderSource(record), TRUE, TRUE) = <<".">>
    THEN NoText
    ELSE normalise_group_text(FolderSource(record), TRUE, TRUE)

RelativeFirst(record) ==
    IF normalise_group_text(record.relative_dir, TRUE, TRUE) = <<".">>
    THEN NoText
    ELSE FirstSegment(normalise_group_text(record.relative_dir, TRUE, TRUE))

\* first_segment after the cross-check against relative_dir
CheckedSegment(normalised, first_segment, relative_first) ==
    IF /\ relative_first # NoText
       /\ first_segment # relative_first
       /\ \/ first_segment = NoText
          \/ Contains(normalised, <<"/">> \o relative_first)
          \/ EndsWith(normalised, relative_first)
    THEN relative_first
    ELSE first_segment

folder_token_from_record(record) ==
    sanitise_group_token(
        CheckedSegment(FolderNormalised(record),
                       FirstSegment(FolderNormalised(record)),
                       RelativeFirst(record)),
        <<"_root">>)

\* "/".join(components) of the non-empty components
JoinPath(dir, path) ==
    IF dir = NoText THEN path
    ELSE IF path = NoText THEN dir
    ELSE dir \o <<"/">> \o path

\* _stable_path_hash: the MD5 of a text is the text itself, tagged
stable_path_hash(record) ==
    <<"md5",
      IF JoinPath(normalise_group_text(record.relative_dir, TRUE, TRUE),
                  normalise_group_text(record.relative_path, TRUE, FALSE)) = NoText
      THEN <<"missing">>
      ELSE JoinPath(normalise_group_text(record.relative_dir, TRUE, TRUE),
                    normalise_group_text(record.relative_path, TRUE, FALSE))>>

\* compute_group_key on the text fields; the audio hash is a clean hex
\* string and the title is the same in a record and its variants
ComputeGroupKey(record) ==
    IF record.audio_hash # ""
    THEN <<"audio", record.audio_hash, folder_token_from_record(record)>>
    ELSE <<"missing", folder_token_from_record(record), "title",
           stable_path_hash(record)>>

\* a record as the scanner builds it for <root>/P/s/f, with or without
\* audio, with or without dir_url
TextFields == {"relative_path", "relative_dir", "dir_url"}

CleanRecords ==
    {[relative_path |-> <<"P", "/", "s", "/", "f">>,
      relative_dir |-> <<"P", "/", "s">>,
      dir_url |-> u, audio_hash |-> h] :
        u \in {NoText, <<"/", "g", "/", "P", "/", "s", "/">>},
        h \in {"", "h"}}

GroupKeyInit ==
    /\ ScannerIdle
    /\ cg = IdleGroup
    /\ cc = IdleChart
    /\ wt = IdleWatcher
    /\ pt = IdleParser
    /\ gk \in {[base |-> r, variant |-> r, edits |-> 0] : r \in CleanRecords}

\* the variant with field fld set to text
Edited(fld, text) ==
    /\ gk.edits < MaxEdits
    /\ gk' = [gk EXCEPT !.variant[fld] = text, !.edits = @ + 1]
    /\ UNCHANGED <<scannerVars, cg, cc, wt, pt>>

InsertAt(text, i, c) == SubSeq(text, 1, i) \o <<c>> \o SubSeq(text, i + 1, Len(text))

\* a letter is written in the other case
ChangeCase(fld, i) ==
    /\ i \in DOMAIN gk.variant[fld]
    /\ IsLetter(gk.variant[fld][i])
    /\ Edited(fld, [gk.variant[fld] EXCEPT ![i] =
                       IF LowerOf(@) # @ THEN LowerOf(@) ELSE UpperOf(@)])

\* a character is written percent-encoded
PercentEncode(fld, i) ==
    /\ i \in DOMAIN gk.variant[fld]
    /\ gk.variant[fld][i] \in {"/", "p", " "}
    /\ Edited(fld, [gk.variant[fld] EXCEPT ![i] =
                       CASE @ = "/" -> "%2F" [] @ = "p" -> "%70" [] OTHER -> "%20"])

\* a slash is written as a backslash
UseBackslash(fld, i) ==
    /\ i \in DOMAIN gk.variant[fld]
    /\ gk.variant[fld][i] = "/"
    /\ Edited(fld, [gk.variant[fld] EXCEPT ![i] = "\\"])

\* a slash is doubled
DuplicateSlash(fld, i) ==
    /\ i \in DOMAIN gk.variant[fld]
    /\ gk.variant[fld][i] \in {"/", "\\"}
    /\ Edited(fld, InsertAt(gk.variant[fld], i, "/"))

\* a zero-width character is inserted anywhere
InsertZeroWidth(fld, i) ==
    /\ gk.variant[fld] # NoText
    /\ i \in 0..Len(gk.variant[fld])
    /\ Edited(fld, InsertAt(gk.variant[fld], i, "zw"))

\* a space or an NBSP is put in front of the text or behind it
SurroundWhitespace(fld, front, c) ==
    /\ gk.variant[fld] # NoText
    /\ Edited(fld, InsertAt(gk.variant[fld],
                            IF front THEN 0 ELSE Len(gk.variant[fld]), c))

EditPositions == 0..(7 + MaxEdits)

NextGroupKey ==
    \E fld \in TextFields :
        \/ \E i \in EditPositions : ChangeCase(fld, i)
        \/ \E i \in EditPositions : PercentEncode(fld, i)
        \/ \E i \in EditPositions : UseBackslash(fld, i)
        \/ \E i \in EditPositions : DuplicateSlash(fld, i)
        \/ \E i \in EditPositions : InsertZeroWidth(fld, i)
        \/ \E front \in BOOLEAN, c \in Whitespace : SurroundWhitespace(fld, front, c)

SpecGroupKey == GroupKeyInit /\ [][NextGroupKey]_vars


\* ------------------------------------------------------------ the watcher
\* _EventHandler of start_watcher.  A path is given by its suffix
\* (Path(path).suffix); NoPath is the empty string an event carries where it
\* has no such path.  An event that is not a move has no dest_path.
Suffixes == {".tja", ".TJA", ".ogg", ".Mp3", ".txt", ""}

SUPPORTED_AUDIO_EXTS ==
    {".ogg", ".mp3", ".wav", ".m4a", ".aac", ".flac", ".opus", ".t3u8"}

\* Path(path).suffix.lower()
SuffixLower(path) ==
    CASE path = NoPath -> ""
      [] path = ".TJA" -> ".tja"
      [] path = ".Mp3" -> ".mp3"
      [] OTHER -> path

Events ==
    [is_directory : BOOLEAN, src_path : Suffixes, dest_path : Suffixes \cup {NoPath}]

\* getattr(event, 'src_path', '') or getattr(event, 'dest_path', '')
EventPath(event) ==
    IF event.src_path # NoPath THEN event.src_path ELSE event.dest_path

\* on_any_event reaches self._schedule()
Schedules(event) ==
    /\ ~event.is_directory
    /\ SuffixLower(EventPath(event)) \in {".tja"} \cup SUPPORTED_AUDIO_EXTS

WatcherInit ==
    /\ ScannerIdle
    /\ cg = IdleGroup
    /\ cc = IdleChart
    /\ gk = IdleKeys
    /\ wt = IdleWatcher
    /\ pt = IdleParser

\* debounce_seconds, in ticks of the clock
Debounce == 2

KeepTimer(timers) == timers

\* if self._timer: self._timer.cancel().  cancel() stops a timer that is
\* still waiting and does nothing to one that has fired
CancelTimer(timers) ==
    IF timers # <<>> /\ timers[Len(timers)].state = "waiting"
    THEN [timers EXCEPT ![Len(timers)].state = "cancelled"]
    ELSE timers

\* a callback of the watcher is inside _scan_impl
ScanRunning(timers) == \E i \in DOMAIN timers : timers[i].state = "scanning"

\* threading.Timer(self._debounce, self._trigger), started
NewTimer(wat) ==
    [state |-> "waiting", due |-> wat.clock + Debounce,
     during |-> ScanRunning(wat.timers)]

\* _schedule, under self._lock
Schedule(wat) ==
    [wat EXCEPT !.called = TRUE,
                !.cancelledNow = (wat.timer = "pending"),
                !.cancelled = IF wat.timer = "pending" THEN @ + 1 ELSE @,
                !.scheduled = @ + 1,
                !.timer = "pending",
                !.bursts = IF \E i \in DOMAIN wat.timers :
                                 wat.timers[i].state = "waiting"
                           THEN @ ELSE @ + 1,
                !.timers = Append(CancelTimer(wat.timers), NewTimer(wat))]

\* on_any_event(event), with _schedule: a timer that is set is cancelled and
\* a new one is started
OnAnyEvent(event) ==
    /\ wt.events < MaxEvents
    /\ wt.clock + Debounce <= MaxClock
    /\ wt' = IF Schedules(event)
             THEN Schedule([wt EXCEPT !.events = @ + 1, !.last = event])
             ELSE [wt EXCEPT !.events = @ + 1, !.last = event,
                             !.called = FALSE, !.cancelledNow = FALSE]
    /\ UNCHANGED <<scannerVars, cg, cc, gk, pt>>

\* time passes, but not beyond the moment a waiting timer is due
Tick ==
    /\ wt.clock < MaxClock
    /\ \A i \in DOMAIN wt.timers :
          wt.timers[i].state = "waiting" => wt.clock < wt.timers[i].due
    /\ wt' = [wt EXCEPT !.clock = @ + 1]
    /\ UNCHANGED <<scannerVars, cg, cc, gk, pt>>

\* the debounce interval of timer i passed: its thread calls the callback,
\* which reaches scan() and waits for _scan_lock
TimerFires(i) ==
    /\ wt.timers[i].state = "waiting"
    /\ wt.clock >= wt.timers[i].due
    /\ wt' = [wt EXCEPT !.timers[i].state = "blocked",
                        !.timer = IF i = Len(wt.timers) THEN "fired" ELSE @,
                        !.callbacks = @ + 1]
    /\ UNCHANGED <<scannerVars, cg, cc, gk, pt>>

watcherFrame == <<fs, changes, th, locks, sc, cg, cc, gk, pt>>

\* with self._scan_lock: the callback of timer i enters _scan_impl
CallbackEnters(i) ==
    /\ wt.timers[i].state = "blocked"
    /\ ScanLockFree(scanLock)
    /\ scanLock' = "watcher"
    /\ wt' = [wt EXCEPT !.timers[i].state = "scanning"]
    /\ UNCHANGED <<passVars, fsDirty, ad>>
    /\ UNCHANGED watcherFrame

\* the incremental pass of the callback of timer i is done; _scan_lock is
\* released
CallbackReturns(i) ==
    /\ wt.timers[i].state = "scanning"
    /\ PassWrites(FALSE, <<>>)
    /\ scanLock' = NoCaller
    /\ wt' = [wt EXCEPT !.timers[i].state = "done"]
    /\ UNCHANGED watcherFrame

\* what the thread of timer i does next
TimerStep(i) ==
    /\ i \in DOMAIN wt.timers
    /\ TimerFires(i) \/ CallbackEnters(i) \/ CallbackReturns(i)

NextWatcher ==
    \/ \E event \in Events : OnAnyEvent(event)
    \/ Tick
    \/ \E i \in 1..MaxEvents : TimerStep(i)

SpecWatcher == WatcherInit /\ [][NextWatcher]_vars

\* the events of SpecWatcherLive: a chart file or a text file was modified
FileEvents ==
    {e \in Events : ~e.is_directory /\ e.src_path \in {".tja", ".txt"}
                                    /\ e.dest_path = NoPath}

NextWatcherLive ==
    \/ \E event \in FileEvents : OnAnyEvent(event)
    \/ Tick
    \/ \E i \in 1..MaxEvents : TimerStep(i)

\* time passes and every timer thread is scheduled again and again; a pass
\* ends (_scan_impl returns or raises, and the with block releases the lock)
SpecWatcherLive ==
    /\ WatcherInit
    /\ [][NextWatcherLive]_vars
    /\ WF_vars(Tick)
    /\ \A i \in 1..MaxEvents : WF_vars(TimerStep(i))


\* ------------------------------------------------------------ parse_tja
\* A line is a sequence of tokens: a digit, a comma, a space and a bar are
\* one character each, a directive name, a key and a value are one token.
\* A directive name is always followed by white space or the end of the line.
Digits == {"0", "1", "2", "3", "4", "5", "6", "7", "8", "9"}
DigitChars == <<"0", "1", "2", "3", "4", "5", "6", "7", "8", "9">>

\* int(ch)
IntOf(ch) == (CHOOSE i \in DOMAIN DigitChars : DigitChars[i] = ch) - 1

\* a set of hit notes that takes 7 for a hit
HitNotesWithSeven == 1..7

\* the notes that count as hits
HIT_NOTE_VALUES == 1..6

\* SAFE_NOTE_DIRECTIVES without #SCROLL
SafeNoteDirectivesNoScroll == {"#BPMCHANGE", "#MEASURE"}

SAFE_NOTE_DIRECTIVES == {"#BPMCHANGE", "#MEASURE", "#SCROLL"}

DOJO_COURSE_TOKENS == {"DOJO", "DAN", "KYUU"}

\* str.upper() on the tokens of the modelled lines
UpperWord(tok) ==
    CASE tok = "#start" -> "#START" [] tok = "#lyric" -> "#LYRIC"
      [] tok = "#n" -> "#N" [] tok = "wave" -> "WAVE"
      [] tok = "Oni" -> "ONI" [] tok = "Dan" -> "DAN"
      [] OTHER -> tok

\* the tokens that begin with '#'
HashTokens ==
    {"#START", "#END", "#NEXTSONG", "#BPMCHANGE", "#MEASURE", "#SCROLL",
     "#GOGOSTART", "#GOGOEND", "#BRANCHSTART", "#BRANCHEND", "#N", "#E", "#M",
     "#LYRIC", "#DELAY", "#start", "#lyric", "#n"}

\* directive.startswith("#BRANCH"), directive.startswith("#BRANCHSTART")
StartsWithBranch(d) == d \in {"#BRANCHSTART", "#BRANCHEND"}
StartsWithBranchStart(d) == d = "#BRANCHSTART"

\* directive[1:] of #N, #E, #M
SectionOf(d) == CASE d = "#N" -> "N" [] d = "#E" -> "E" [] OTHER -> "M"

CommentMarkers == {"//", ";"}

\* _strip_inline_comments(value, allow_without_whitespace=allow): the text
\* before the first marker that starts the line, follows white space, or
\* (allow) stands anywhere
StripInlineComments(value, allow) ==
    LET cut == {i \in DOMAIN value :
                   /\ value[i] \in CommentMarkers
                   /\ (i = 1 \/ allow \/ value[i - 1] \in Whitespace)} IN
    IF cut = {} THEN value
    ELSE SubSeq(value, 1, (CHOOSE i \in cut : \A j \in cut : i <= j) - 1)

\* the elements of a sequence
Elements(text) == {text[i] : i \in DOMAIN text}

\* the position of the first sep in text
FirstOf(text, sep) ==
    CHOOSE i \in DOMAIN text : text[i] = sep /\ \A j \in 1..(i - 1) : text[j] # sep

RECURSIVE SplitOn(_, _)
\* text.split(sep)
SplitOn(text, sep) ==
    IF sep \notin Elements(text) THEN <<text>>
    ELSE <<SubSeq(text, 1, FirstOf(text, sep) - 1)>>
         \o SplitOn(SubSeq(text, FirstOf(text, sep) + 1, Len(text)), sep)

\* NOTE_TOKEN_CLEAN_RE.sub("", token): the digits of the token
CleanToken(token) == Pick(token, {i \in DOMAIN token : token[i] \in Digits}, 1)

\* NOTE_LINE_RE.match(measure_line): digits, commas, white space and bars
MatchesNoteLine(measure_line) ==
    /\ measure_line # <<>>
    /\ Elements(measure_line) \subseteq Digits \cup {",", "|"} \cup Whitespace

\* sum(1 for note in notes if note in HIT_NOTE_VALUES)
HitCount(cleaned) ==
    Cardinality({i \in DOMAIN cleaned : IntOf(cleaned[i]) \in HIT_NOTE_VALUES})

\* _current_audio()
CurrentAudio(p) == IF p.current_wave # NoWave THEN p.current_wave ELSE p.wave

\* _close_gogo(course) on the course's record
CloseGogo(c) ==
    IF c.gogo_start = NoMeasure THEN c
    ELSE IF ~c.open THEN [c EXCEPT !.gogo_start = NoMeasure]
    ELSE [c EXCEPT
            !.segments[Len(c.segments)].gogo_ranges =
                Append(@, [start |-> c.gogo_start,
                           end |-> IF c.measure_index < c.gogo_start
                                   THEN c.gogo_start ELSE c.measure_index]),
            !.gogo_start = NoMeasure]

\* _start_segment(course, audio)
StartSegment(c, audio) ==
    [c EXCEPT !.segments = Append(@, [audio |-> audio,
                                      start_measure |-> c.measure_index,
                                      end_measure |-> NoMeasure,
                                      gogo_ranges |-> <<>>]),
              !.open = TRUE]

\* the tail of _end_segment, after _close_gogo
EndOpenSegment(c) ==
    [c EXCEPT !.segments[Len(c.segments)].end_measure =
                  IF @ = NoMeasure THEN c.measure_index ELSE @,
              !.open = FALSE]

\* _end_segment(course)
EndSegment(c) == IF ~c.open THEN c ELSE EndOpenSegment(CloseGogo(c))

\* the segment a dojo course needs before a measure, #GOGOSTART, #BPMCHANGE
WithSegment(c, audio) == IF c.open THEN c ELSE StartSegment(c, audio)

\* #START for the active course
DirectiveStart(p, a) ==
    [p EXCEPT !.courses[a] =
                  IF @.mode = "dojo"
                  THEN StartSegment(
                           EndSegment([@ EXCEPT !.start_blocks = @ + 1,
                                                !.measure_index = 0]),
                           CurrentAudio(p))
                  ELSE [@ EXCEPT !.start_blocks = @ + 1],
              !.current_notes_course = a,
              !.parsing_notes = TRUE]

\* the segment of the course whose notes are read ends, if it is a dojo course
EndNotesSegment(p) ==
    IF p.current_notes_course # NoCourse
       /\ p.courses[p.current_notes_course].mode = "dojo"
    THEN [p EXCEPT !.courses[p.current_notes_course] = EndSegment(@)]
    ELSE p

\* #END for the active course
DirectiveEnd(p, a) ==
    [EndNotesSegment([p EXCEPT !.courses[a].end_blocks = @ + 1])
        EXCEPT !.parsing_notes = FALSE, !.current_notes_course = NoCourse]

\* the directives handled when a course is active
ActiveDirectives == {"#START", "#END", "#N", "#E", "#M"}
HandledActive(p, d) ==
    p.active_course # NoCourse /\ (d \in ActiveDirectives \/ StartsWithBranch(d))

\* the first chain of the directive branch: "if active_course:"
DirectiveActive(p, d) ==
    IF ~HandledActive(p, d) THEN p
    ELSE IF d = "#START" THEN DirectiveStart(p, p.active_course)
    ELSE IF d = "#END" THEN DirectiveEnd(p, p.active_course)
    ELSE IF StartsWithBranch(d)
    THEN [p EXCEPT !.courses[p.active_course].branch = TRUE,
                   !.courses[p.active_course].branch_sections =
                       IF StartsWithBranchStart(d) THEN @ \cup {"START"} ELSE @]
    ELSE [p EXCEPT !.courses[p.active_course].branch_sections =
                       @ \cup {SectionOf(d)}]

\* "parsing_notes and current_notes_course"
InNotes(p) == p.parsing_notes /\ p.current_notes_course # NoCourse

\* the directives handled inside a note block
NoteDirectives ==
    {"#NEXTSONG", "#GOGOSTART", "#GOGOEND", "#BPMCHANGE"} \cup SAFE_NOTE_DIRECTIVES
HandledNotes(p, d) == InNotes(p) /\ d \in NoteDirectives

\* what a note directive does to the record of a dojo course
DojoDirective(c, d, audio) ==
    CASE d = "#NEXTSONG" -> EndSegment(c)
      [] d = "#GOGOSTART" ->
            [WithSegment(c, audio) EXCEPT !.gogo_start = c.measure_index]
      [] d = "#GOGOEND" -> CloseGogo(c)
      [] d = "#BPMCHANGE" -> WithSegment(c, audio)
      [] OTHER -> c

\* the second chain: "if parsing_notes and current_notes_course:"
DirectiveNotes(p, d) ==
    IF HandledNotes(p, d) /\ p.courses[p.current_notes_course].mode = "dojo"
    THEN [p EXCEPT !.courses[p.current_notes_course] =
                       DojoDirective(@, d, CurrentAudio(p))]
    ELSE p

\* only the counter of the file grows
CountUnknownFileOnly(p) ==
    [p EXCEPT !.unknown_directives = @ + 1]

\* the directive was not handled: both counters grow
CountUnknown(p) ==
    [p EXCEPT !.courses[p.current_notes_course].unknown_directives = @ + 1,
              !.unknown_directives = @ + 1]

\* the end of the directive branch, p1 being the locals after the first chain
DirectiveCounted(p1, handledActive, d) ==
    IF InNotes(p1) /\ ~handledActive /\ ~HandledNotes(p1, d)
    THEN CountUnknown(DirectiveNotes(p1, d))
    ELSE DirectiveNotes(p1, d)

\* a line that starts with '#'
ParseDirective(p, d) ==
    DirectiveCounted(DirectiveActive(p, d), HandledActive(p, d), d)

\* one token of a measure line, cleaned, for the course record c
MeasureToken(c, cleaned, audio) ==
    IF cleaned = <<>> THEN c
    ELSE IF c.mode = "dojo"
    THEN [WithSegment(c, audio) EXCEPT
            !.hit_notes = @ + HitCount(cleaned),
            !.total_notes = @ + Len(cleaned),
            !.measures = @ + 1,
            !.measure_index = @ + 1]
    ELSE [c EXCEPT !.hit_notes = @ + HitCount(cleaned),
                   !.total_notes = @ + Len(cleaned),
                   !.measures = @ + 1]

RECURSIVE MeasureTokens(_, _, _)
\* the loop over the tokens of a measure line
MeasureTokens(c, tokens, audio) ==
    IF tokens = <<>> THEN c
    ELSE MeasureTokens(MeasureToken(c, CleanToken(Head(tokens)), audio),
                       Tail(tokens), audio)

\* saw_digits
SawDigits(text) == Elements(text) \cap Digits # {}

\* first_note_preview after a measure line
WithPreview(c, stripped_comments) ==
    IF SawDigits(stripped_comments) /\ c.first_note_preview = NoPreview
    THEN [c EXCEPT !.first_note_preview = Strip(stripped_comments, Whitespace)]
    ELSE c

\* a line inside a note block that holds no ':'
ParseMeasureLine(p, stripped_comments) ==
    IF ~MatchesNoteLine(Strip(stripped_comments, Whitespace)) THEN p
    ELSE [p EXCEPT !.courses[p.current_notes_course] =
                       WithPreview(MeasureTokens(@, SplitOn(stripped_comments, ","),
                                                 CurrentAudio(p)),
                                   stripped_comments)]

\* the key and the value of "key:value"
KeyUpper(line) ==
    LET key == Strip(SubSeq(line, 1, FirstOf(line, ":") - 1), Whitespace) IN
    IF Len(key) = 1 THEN UpperWord(key[1]) ELSE "?"
ValueStripped(line) ==
    Strip(SubSeq(line, FirstOf(line, ":") + 1, Len(line)), Whitespace)

\* clean_wave of a WAVE line: its value of one word, None when it is empty
CleanWave(line) ==
    IF ValueStripped(line) = <<>> THEN NoWave ELSE ValueStripped(line)[1]

\* WAVE:value
ParseWave(p, clean_wave) ==
    IF ~p.parsing_notes
    THEN [p EXCEPT !.wave = clean_wave, !.current_wave = clean_wave]
    ELSE EndNotesSegment([p EXCEPT !.current_wave = clean_wave])

\* _normalise_course_token on a value of one word
CourseToken(value) == IF Len(value) = 1 THEN UpperWord(value[1]) ELSE "?"

\* COURSE:value for the dojo tokens and for Oni; a dojo token makes a new
\* CourseInfo each time, so the modelled files hold one dojo COURSE line;
\* courses that resolve to Unknown are not modelled
ParseCourse(p, token) ==
    IF token \in DOJO_COURSE_TOKENS
    THEN [p EXCEPT !.active_course = "Dojo", !.courses["Dojo"].listed = TRUE]
    ELSE IF token = "ONI"
    THEN [p EXCEPT !.active_course = "Oni", !.courses["Oni"].listed = TRUE]
    ELSE p

\* a line with ':' outside the cases above; the other keys set metadata
\* that the model does not hold
ParseKeyValue(p, line) ==
    IF KeyUpper(line) = "WAVE"
    THEN ParseWave(p, CleanWave(line))
    ELSE IF KeyUpper(line) = "COURSE"
    THEN ParseCourse(p, CourseToken(ValueStripped(line)))
    ELSE p

\* the body of the loop from "line = stripped_comments.strip()" on
ParseStripped(p, stripped_comments, line) ==
    IF line = <<>> \/ line = <<"...">> THEN p
    ELSE IF p.parsing_notes /\ Elements(line) \subseteq {",", ";"} THEN p
    ELSE IF line[1] \in HashTokens THEN ParseDirective(p, UpperWord(line[1]))
    ELSE IF InNotes(p) /\ ":" \notin Elements(line)
    THEN ParseMeasureLine(p, stripped_comments)
    ELSE IF ":" \notin Elements(line) THEN p
    ELSE ParseKeyValue(p, line)

\* the line without its inline comment
Uncommented(p, raw_line) == StripInlineComments(raw_line, p.parsing_notes)

\* one iteration of the loop over the lines
ParseLine(p, raw_line) ==
    IF Strip(raw_line, Whitespace) # <<>>
       /\ Strip(raw_line, Whitespace)[1] \in CommentMarkers
    THEN p
    ELSE ParseStripped(p, Uncommented(p, raw_line),
                       Strip(Uncommented(p, raw_line), Whitespace))

RECURSIVE ParseLines(_, _)
\* the loop over the lines of a text
ParseLines(p, lines) ==
    IF lines = <<>> THEN p ELSE ParseLines(ParseLine(p, Head(lines)), Tail(lines))

\* after the loop: the segment still open ends
CloseCourses(p) ==
    [p EXCEPT !.courses = [n \in ParserCourses |-> EndSegment(p.courses[n])]]


\* the lines of the modelled chart files
DirectiveLines == {<<d>> : d \in HashTokens} \cup {<<"#BPMCHANGE", " ", "1">>}
NoteLines ==
    {<<"1", ",">>, <<"9", "0", "0", "0", "1", ",">>, <<"1">>,
     <<"1", ",", "2">>, <<",", ",">>, <<"1", "x", ",">>,
     <<"7", "|", "6", ",">>, <<" ", "0", ",", " ", ",">>,
     <<"1", ",", ";", "2", ",">>, <<"//", "1", ",">>}
KeyLines ==
    {<<"COURSE", ":", "Oni">>, <<"COURSE", ":", "Dan">>,
     <<"WAVE", ":", "a.ogg">>, <<"wave", ":", " ", "b.ogg">>, <<"WAVE", ":">>,
     <<"1", ":", "1", ",">>}
ParserLines == DirectiveLines \cup NoteLines \cup KeyLines

\* the lines a modelled file may begin with
ParserHeaders ==
    {<<>>,
     <<<<"COURSE", ":", "Oni">>, <<"#START">>>>,
     <<<<"WAVE", ":", "a.ogg">>, <<"COURSE", ":", "Dan">>>>,
     <<<<"COURSE", ":", "Dan">>, <<"#START">>>>}

\* a line "WAVE:value" that is no comment
IsWaveLine(line) ==
    /\ line # <<>>
    /\ line[1] \notin CommentMarkers \cup HashTokens
    /\ ":" \in Elements(line)
    /\ KeyUpper(line) = "WAVE"

\* the history of the WAVE lines after one more line
WaveSeen(seen, line) ==
    IF ~IsWaveLine(line) THEN seen
    ELSE IF ValueStripped(line) = <<>> THEN <<NoWave, seen[2]>>
    ELSE <<ValueStripped(line)[1], ValueStripped(line)[1]>>

RECURSIVE WavesSeen(_, _)
WavesSeen(seen, lines) ==
    IF lines = <<>> THEN seen
    ELSE WavesSeen(WaveSeen(seen, Head(lines)), Tail(lines))

\* parse_tja has read the lines h and may read limit more
Reading(h, limit) ==
    [pc |-> "reading", p |-> ParseLines(FreshParser, h), line |-> <<>>,
     lines |-> 0, limit |-> limit, seen |-> WavesSeen(<<NoWave, NoWave>>, h)]

\* parse_tja has read the first lines of a file
ParserInit ==
    /\ ScannerIdle
    /\ cg = IdleGroup
    /\ cc = IdleChart
    /\ gk = IdleKeys
    /\ wt = IdleWatcher
    /\ pt \in {Reading(h, MaxLines) : h \in ParserHeaders}

\* a COURSE line with a dojo token
IsDojoCourseLine(line) ==
    /\ ":" \in Elements(line)
    /\ KeyUpper(line) = "COURSE"
    /\ CourseToken(ValueStripped(line)) \in DOJO_COURSE_TOKENS

\* one iteration of the loop of parse_tja over the lines
ReadLine(raw_line) ==
    /\ pt.pc = "reading"
    /\ pt.lines < pt.limit
    /\ IsDojoCourseLine(raw_line) => ~pt.p.courses["Dojo"].listed
    /\ pt' = [pt EXCEPT !.p = ParseLine(pt.p, raw_line),
                        !.line = raw_line, !.lines = @ + 1,
                        !.seen = WaveSeen(@, raw_line)]
    /\ UNCHANGED <<scannerVars, cg, cc, gk, wt>>

\* the text has no further line
EndOfFile ==
    /\ pt.pc = "reading"
    /\ pt' = [pt EXCEPT !.pc = "done", !.p = CloseCourses(pt.p)]
    /\ UNCHANGED <<scannerVars, cg, cc, gk, wt>>

NextParser ==
    \/ \E raw_line \in ParserLines : ReadLine(raw_line)
    \/ EndOfFile

SpecParser == ParserInit /\ [][NextParser]_vars

\* the lines of the note block of a dojo course, and the lines before it
DojoLines ==
    {<<"#START">>, <<"#END">>, <<"#NEXTSONG">>, <<"1", ",">>,
     <<"wave", ":", " ", "b.ogg">>, <<"WAVE", ":">>, <<"#BPMCHANGE", " ", "1">>,
     <<"#GOGOSTART">>, <<"#GOGOEND">>, <<"COURSE", ":", "Oni">>}
DojoHeaders ==
    {<<<<"WAVE", ":", "a.ogg">>, <<"COURSE", ":", "Dan">>, <<"#START">>>>,
     <<<<"COURSE", ":", "Dan">>, <<"#START">>>>,
     <<<<"WAVE", ":", "a.ogg">>, <<"COURSE", ":", "Dan">>>>}

\* parse_tja has read the head of a file with a dojo course
DojoInit ==
    /\ ScannerIdle
    /\ cg = IdleGroup
    /\ cc = IdleChart
    /\ gk = IdleKeys
    /\ wt = IdleWatcher
    /\ pt \in {Reading(h, MaxDojoLines) : h \in DojoHeaders}

NextDojo ==
    \/ \E raw_line \in DojoLines : ReadLine(raw_line)
    \/ EndOfFile

SpecDojo == DojoInit /\ [][NextDojo]_vars


\* ================================================================== claims
\* the last pass returned its summary
PassDone == passes > 0 /\ ~aborted

HasOid(coll, oid) == \E i \in DOMAIN coll : coll[i]["_id"] = oid
RowWithId(coll, id) == coll[CHOOSE i \in DOMAIN coll : coll[i].id = id]
RowWithKey(coll, key) == coll[FirstWithKey(coll, key)]

\* group keys the tree holds, as a pass that parses every file sees them
TreeKeys ==
    {compute_group_key(MakeRecord(p, fs.files[p])) :
        p \in {q \in Paths : fs.files[q] # NoFile}}

\* the last two passes were full passes with no change of the tree between
TwoFullPasses ==
    PassDone /\ lastKind = "full" /\ prevKind = "full" /\ quiet /\ ~fsDirty

\* managed rows that the last pass turned from enabled to not enabled
Transitioned ==
    {preSongs[i].id : i \in {j \in DOMAIN preSongs :
        /\ preSongs[j].managed_by_scanner /\ preSongs[j].id # NoId
        /\ preSongs[j].enabled
        /\ HasOid(songs, preSongs[j]["_id"])
        /\ ~RowOfOid(songs, preSongs[j]["_id"]).enabled}}

\* C1: once a catalog row holds an integer id, no step (no pass of the
\* scanner, whatever the tree did before it) changes the id or the order of
\* that row, and the row stays in the collection.
C1_IdImmutable ==
    [][\A i \in DOMAIN songs :
          songs[i].id # NoId =>
             \E j \in DOMAIN songs' :
                /\ songs'[j]["_id"] = songs[i]["_id"]
                /\ songs'[j].id = songs[i].id
                /\ songs'[j].order = songs[i].order]_vars

\* C1 witness: a pass refreshed a row that already held an id, and the same
\* pass allocated an id for another row
C1_Witness ==
    /\ PassDone
    /\ \E i \in DOMAIN preSongs :
          preSongs[i].id # NoId /\ preSongs[i].group_key \in trace.refreshed
    /\ summary.inserted >= 1

RowsWithKey(coll, key) == {i \in DOMAIN coll : coll[i].group_key = key}

\* threads that called _upsert_song_document for the group of audio n
CallersOf(n) == {t \in Threads : th[t].pc # "idle" /\ th[t].key = n}

C3_Original ==
    TwoFullPasses => summary.inserted = 0 /\ summary.updated = 0

\* C3 amended: the second of two full passes over an unchanged tree reports
\* inserted = 0 and updated = the number of groups in the tree (a full pass
\* marks every group dirty and refreshes it).
C3_SecondFullPass ==
    TwoFullPasses =>
        /\ summary.inserted = 0
        /\ summary.updated = Cardinality(TreeKeys)
        /\ summary.errors = 0

\* C3 witness: such a second full pass over a tree that holds two groups
C3_Witness == TwoFullPasses /\ Cardinality(TreeKeys) = 2 /\ summary.updated = 2

StripUpdatedAt(row) ==
    [row EXCEPT !.charts = [i \in DOMAIN row.charts |->
        [f \in (DOMAIN row.charts[i]) \ {"updatedAt"} |-> row.charts[i][f]]]]

\* C4: after the second of two full passes over an unchanged tree the
\* collection holds the same rows in the same order as after the first, each
\* equal in every field (id, order, enabled, charts and their order) except
\* the updatedAt stamps of the charts.
C4_SecondFullPassSameRows ==
    TwoFullPasses =>
        /\ Len(songs) = Len(preSongs)
        /\ \A i \in DOMAIN songs : StripUpdatedAt(songs[i]) = StripUpdatedAt(preSongs[i])

\* C4 witness: the second full pass rewrote a stored chart (its stamp moved)
\* of a row that merges the charts of two files
C4_Witness ==
    /\ TwoFullPasses
    /\ \E i \in DOMAIN songs :
          /\ Len(songs[i].charts) = 2
          /\ Len(preSongs[i].charts) = 2
          /\ songs[i].charts[1].updatedAt # preSongs[i].charts[1].updatedAt

\* C5: an incremental pass that follows a pass over the same tree, every
\* chart file of which has a companion audio file, reports inserted = 0,
\* updated = 0, disabled = 0, skipped = found and issues no refresh.
C5_QuietIncrementalPass ==
    (/\ PassDone /\ lastKind = "incr" /\ prevKind # "none" /\ quiet /\ ~fsDirty
     /\ \A p \in Paths : fs.files[p] # NoFile => fs.files[p].ac # NoAudio
     /\ \A p \in Paths : preState[p].tv # 0 => preState[p].snap)
    => /\ summary.inserted = 0
       /\ summary.updated = 0
       /\ summary.disabled = 0
       /\ summary.errors = 0
       /\ summary.skipped = summary.found
       /\ trace.refreshed = {}
       /\ songs = preSongs

\* C5 witness: such a pass over a tree with two chart files
C5_Witness ==
    /\ PassDone /\ lastKind = "incr" /\ prevKind # "none" /\ quiet /\ ~fsDirty
    /\ \A p \in Paths : fs.files[p] # NoFile => fs.files[p].ac # NoAudio
    /\ \A p \in Paths : preState[p].tv # 0 => preState[p].snap
    /\ summary.found = 2 /\ summary.skipped = 2

\* C6 as claimed: a file is skipped exactly when it has a state row, the pass
\* is not full, the chart signature matches, the audio signature matches if
\* an audio is known for the file, and the snapshot deserialises; every other
\* file is re-parsed and its group is marked dirty.
C6_SkipExactlyWhenClean ==
    (PassDone /\ ~fsDirty) =>
        \A p \in trace.present :
            LET row == preState[p]
                f == fs.files[p]
                clean == /\ row.tv # 0
                         /\ lastKind # "full"
                         /\ row.tv = f.tv
                         /\ (row.ac # NoAudio => row.ac = f.ac)
                         /\ row.snap
            IN /\ (p \in trace.skipped) <=> clean
               /\ p \notin trace.skipped =>
                     compute_group_key(MakeRecord(p, f)) \in trace.dirty


\* chart files an earlier pass imported (they have a state row that names a
\* catalog row) and the last pass did not find in the tree
Vanished ==
    {p \in Paths : preState[p].tv # 0 /\ preState[p].song_id # NoId
                   /\ p \notin trace.present}

\* C7 as claimed: for every chart file that an earlier pass imported and the
\* last pass did not find, the pass turned the file's catalog row from
\* enabled to not enabled and counted it in disabled.
C7_Original ==
    PassDone =>
        \A p \in Vanished :
            /\ preState[p].song_id \in Transitioned
            /\ preState[p].song_id \in trace.counted

\* C7 amended: for every such file, the pass turns the file's catalog row
\* from enabled to not enabled and counts it in disabled once, provided the
\* pass found the songs directory, the row was enabled when the pass started
\* and the pass put no chart file of the tree into the row's group; otherwise
\* the row is not counted.  disabled is the number of rows so turned.
C7_VanishedFile ==
    PassDone =>
        /\ summary.disabled = Cardinality(Transitioned)
        /\ \A p \in Vanished :
              LET id == preState[p].song_id
                  row == RowWithId(preSongs, id)
                  applies == /\ trace.root
                             /\ row.enabled
                             /\ row.group_key \notin trace.keys
              IN /\ applies => (id \in Transitioned /\ id \in trace.counted)
                 /\ ~applies => (id \notin Transitioned /\ id \notin trace.counted)

\* C7 witness: the only file of an enabled row vanished and the pass
\* disabled the row, counting it once
C7_Witness ==
    /\ PassDone
    /\ \E p \in Vanished : preState[p].song_id \in Transitioned
    /\ summary.disabled = 1

\* rows (positions in the collection as the pass found it) that are managed,
\* hold an id and whose id no group of the last pass produced
UnseenManaged ==
    {i \in DOMAIN preSongs :
        /\ preSongs[i].managed_by_scanner /\ preSongs[i].id # NoId
        /\ preSongs[i].id \notin trace.seen}

AudioChanged(p) ==
    /\ PassDone /\ lastKind = "incr" /\ ~fsDirty
    /\ preState[p].tv # 0 /\ preState[p].snap /\ preState[p].song_id # NoId
    /\ preState[p].ac # NoAudio
    /\ fs.files[p].tv = preState[p].tv
    /\ fs.files[p].ac \notin {NoAudio, preState[p].ac}
    /\ \A q \in Paths \ {p} :
          /\ preState[q].tv = fs.files[q].tv
          /\ preState[q].ac = fs.files[q].ac
          /\ preState[q].ac # preState[p].ac

NewKey(p) == [kind |-> "audio", n |-> fs.files[p].ac]

\* C9 as claimed: the pass skips nothing, inserts one row under the new group
\* key with an id above every earlier id, keeps the old row's id and
\* disables the old row (inserted = 1, disabled = 1, skipped = 0).
C9_Original ==
    \A p \in Paths :
        AudioChanged(p) =>
            /\ summary.skipped = 0
            /\ summary.inserted = 1
            /\ summary.disabled = 1
            /\ RowWithKey(songs, NewKey(p)).id > HighestSongId(preSongs)
            /\ RowWithId(songs, preState[p].song_id)["_id"]
                  = RowWithId(preSongs, preState[p].song_id)["_id"]
            /\ ~RowWithId(songs, preState[p].song_id).enabled

\* C9 amended: the pass re-parses that file (it is not among the skipped
\* files; unchanged files with audio still are), keeps the old row's id and
\* disables the old row (disabled = 1); if no catalog row holds the new
\* group key yet it inserts one row under it with an id above every earlier
\* id (inserted = 1), and if a row holds the new key already it inserts
\* nothing and that row keeps its id.
C9_AudioChange ==
    \A p \in Paths :
        AudioChanged(p) =>
            /\ p \notin trace.skipped
            /\ summary.disabled = 1
            /\ RowWithId(songs, preState[p].song_id)["_id"]
                  = RowWithId(preSongs, preState[p].song_id)["_id"]
            /\ ~RowWithId(songs, preState[p].song_id).enabled
            /\ IF HasKey(preSongs, NewKey(p))
               THEN /\ summary.inserted = 0
                    /\ RowWithKey(songs, NewKey(p)).id
                          = RowWithKey(preSongs, NewKey(p)).id
               ELSE /\ summary.inserted = 1
                    /\ RowWithKey(songs, NewKey(p)).id > HighestSongId(preSongs)

\* C9 witness: the audio of a single-file group changed and the pass
\* inserted the row of the new key and disabled the old row
C9_Witness ==
    \E p \in Paths :
        /\ AudioChanged(p)
        /\ summary.inserted = 1 /\ summary.disabled = 1
        /\ ~HasKey(preSongs, NewKey(p))

\* C10 as claimed: when the driver raises an error that is not a
\* duplicate-key error in the atomic upsert of one group, the pass counts it
\* in errors and goes on: it upserts the other groups, prunes the state rows
\* of files it did not find, tombstones the unseen rows and returns.
C10_DriverFailureCounted ==
    (passes > 0 /\ Len(trace.failed) = 1) =>
        /\ ~aborted
        /\ summary.errors >= 1
        /\ \A k \in trace.keys : <<k>> # trace.failed => HasKey(songs, k)
        /\ \A p \in Paths :
              (preState[p].tv # 0 /\ p \notin trace.present) => state[p].tv = 0
        /\ \A i \in DOMAIN preSongs :
              (/\ preSongs[i].managed_by_scanner /\ preSongs[i].id # NoId
               /\ preSongs[i].group_key \notin trace.keys)
              => ~RowOfOid(songs, preSongs[i]["_id"]).enabled


\* the callers that are inside _scan_impl
InScanImpl == {c \in Callers : sc[c].pc \in {"read", "walk", "upsert", "finish", "leave"}}

\* the pass of caller c ends in this step with what _scan_impl computes, run
\* alone, from the collections the pass found
PassAsIfAlone(c) ==
    LET first == sc[c].pc = "read"
        r == ScanImpl(sc[c].full, <<>>, fs.files, fs.root,
                      IF first THEN songs ELSE sc[c].songs0,
                      IF first THEN state ELSE sc[c].state0,
                      IF first THEN seq ELSE sc[c].seq0,
                      IF first THEN ctr ELSE sc[c].ctr0,
                      IF first THEN now ELSE sc[c].now0)
    IN /\ songs' = r.songs
       /\ state' = r.state
       /\ seq' = r.seq
       /\ ctr' = r.ctr
       /\ sc'[c].summary = r.summary

\* C11: at most one caller is inside _scan_impl at any time, and the steps
\* of concurrently requested passes are never interleaved: every pass ends
\* with exactly the collections and the summary it produces when run alone
\* from the collections it found.
C11_OnePassAtATime ==
    /\ [](Cardinality(InScanImpl) <= 1)
    /\ [][\A c \in Callers :
            (sc[c].pc \in {"read", "finish"} /\ sc'[c].pc = "leave")
               => PassAsIfAlone(c)]_vars

\* C11 witness: one caller is writing the end of its pass over a tree with a
\* chart file while the two others wait for the lock
C11_Witness ==
    /\ \E c \in Callers :
          /\ sc[c].pc = "finish"
          /\ sc[c].w.present # {}
          /\ \A d \in Callers \ {c} : sc[d].pc = "waiting"

KeyOfFile(p) == compute_group_key(MakeRecord(p, fs.files[p]))

\* the files the last pass parsed and built into a record
Parsed == trace.present \ trace.skipped

\* the state row of p holds what the last pass observed of the file
StateRowObserved(p) ==
    /\ state[p].tv = fs.files[p].tv
    /\ state[p].ac = fs.files[p].ac
    /\ state[p].snap
    /\ HasKey(songs, KeyOfFile(p))
    /\ state[p].song_id = RowWithKey(songs, KeyOfFile(p)).id

\* C13 as claimed: at the end of a pass every chart file the pass parsed has
\* a state row holding the values observed in the pass, whether or not the
\* upsert of its group hit errors.
C13_Original ==
    (PassDone /\ ~fsDirty /\ ~stDirty) =>
        \A p \in Parsed : StateRowObserved(p)

\* What the code does in place of C13: at the end of a pass that returns its
\* summary, every chart file the pass parsed has a state row holding the
\* values observed in the pass provided the upsert of its group returned an
\* id; when that upsert returned None the file's state row is left as it was
\* (absent if there was none).  A pass left by a driver exception writes no
\* state row at all.
C13_StateRowsOfParsedFiles ==
    (passes > 0 /\ trace.root /\ ~fsDirty /\ ~stDirty) =>
        /\ aborted => state = preState
        /\ ~aborted =>
              \A p \in Parsed :
                  IF FailureOf(trace.failed, KeyOfFile(p)) = "none"
                  THEN StateRowObserved(p)
                  ELSE state[p] = preState[p]

\* the case of C13_StateRowsOfParsedFiles: the upsert of one group returned
\* None, its changed file kept its old state row, and a file of another group
\* got its row
C13_Witness ==
    /\ passes > 0 /\ ~aborted /\ ~fsDirty /\ ~stDirty
    /\ Len(trace.failed) = 2
    /\ \E p \in Parsed :
          /\ <<KeyOfFile(p), "retries">> = trace.failed
          /\ preState[p].tv # 0 /\ preState[p].tv # fs.files[p].tv
          /\ state[p] = preState[p]
    /\ \E p \in Parsed :
          /\ FailureOf(trace.failed, KeyOfFile(p)) = "none"
          /\ StateRowObserved(p)

\* what identifies a chart of a row: (course, raw_course when the course is
\* Unknown, mode, display_course when the mode is dojo)
ChartKey(c) ==
    <<c.course, IF c.course = UNKNOWN_VALUE THEN c.raw_course ELSE "",
      c.mode, IF c.mode = "dojo" THEN c.display_course ELSE "">>

NoDuplicateCharts(charts) ==
    \A i, j \in DOMAIN charts :
        i # j => ChartKey(charts[i]) # ChartKey(charts[j])

\* C14: after any sequence of upserts no row's stored charts array holds two
\* elements with the same (course, raw_course when Unknown, mode,
\* display_course when dojo).
C14_NoDuplicateCharts ==
    \A i \in DOMAIN songs : NoDuplicateCharts(songs[i].charts)

\* C14 witness: the second upsert of a group met a stored array, replaced an
\* element of it in place and added an element for a chart it did not hold
C14_Witness ==
    /\ cg.pc = "idle" /\ cg.upserts = 2
    /\ Len(songs) = 1 /\ Len(preSongs) = 1
    /\ Len(songs[1].charts) >= 2
    /\ \E i \in DOMAIN songs[1].charts :
          \E j \in DOMAIN preSongs[1].charts :
              ChartKey(songs[1].charts[i]) = ChartKey(preSongs[1].charts[j])
    /\ \E i \in DOMAIN songs[1].charts :
          \A j \in DOMAIN preSongs[1].charts :
              ChartKey(songs[1].charts[i]) # ChartKey(preSongs[1].charts[j])

\* the array is in the order of _chart_sort_key
ChartsOrdered(charts) ==
    \A i, j \in DOMAIN charts :
        i < j => ~TupleLess(ChartSortKey(charts[j]), ChartSortKey(charts[i]))

\* C15: after any sequence of passes, an incremental pass that adds a chart
\* to a stored row included, every row's stored charts array is ordered by
\* (standard before dojo, difficulty rank, course, tja_path).
C15_StoredChartsOrdered ==
    \A i \in DOMAIN songs : ChartsOrdered(songs[i].charts)

\* a document was built from cg.records and is still at hand
GroupBuilt == cg.pc = "built"

\* the entries of the records of the group, in the order of the loops
GroupStream == ChartStream(SortedRecords(cg.records))

\* the entries of the group with the dedup key of entry e
Colliding(e) ==
    {i \in DOMAIN GroupStream : DedupKey(GroupStream[i]) = DedupKey(e)}

\* the charts of the built document with the dedup key of entry e
Survivors(e) ==
    {i \in DOMAIN cg.document.charts :
        DedupKey(cg.document.charts[i]) = DedupKey(e)}

\* C16: of the charts of a group that share a dedup key exactly one is in the
\* built document.  When two or more share the key, the survivor is one of
\* them, carries the duplicate-course issue, is valid whenever one of them
\* is valid, and import_issues contains duplicate_course; a chart that
\* shares its key with no other is in the document without the issue.
C16_DedupSurvivor ==
    GroupBuilt =>
        \A n \in DOMAIN GroupStream :
            LET e == GroupStream[n] IN
            /\ Cardinality(Survivors(e)) = 1
            /\ LET c == cg.document.charts[CHOOSE i \in Survivors(e) : TRUE] IN
               IF Cardinality(Colliding(e)) >= 2
               THEN /\ c.dup
                    /\ \E i \in Colliding(e) :
                          c = [GroupStream[i] EXCEPT !.dup = TRUE]
                    /\ (\E i \in Colliding(e) : GroupStream[i].valid) => c.valid
                    /\ "duplicate_course" \in cg.document.import_issues
               ELSE c = e /\ ~c.dup

\* C16 witness: a chart that is not valid and a valid chart of another file
\* collide on Oni, the valid one survives with the issue, and the Hard chart
\* of the first file is in the document without it
C16_Witness ==
    /\ GroupBuilt
    /\ \E i, j \in DOMAIN GroupStream :
          /\ i < j
          /\ DedupKey(GroupStream[i]) = DedupKey(GroupStream[j])
          /\ ~GroupStream[i].valid /\ GroupStream[j].valid
          /\ \E k \in DOMAIN cg.document.charts :
                cg.document.charts[k] = [GroupStream[j] EXCEPT !.dup = TRUE]
    /\ \E k \in DOMAIN cg.document.charts :
          /\ ~cg.document.charts[k].dup
          /\ cg.document.charts[k].course = "Hard"
    /\ cg.document.import_issues = {"duplicate_course"}

\* the lists that hold the elements of s in another order
Reorderings(s) ==
    {[i \in DOMAIN s |-> s[f[i]]] :
        f \in {g \in [DOMAIN s -> DOMAIN s] :
                  \A i, j \in DOMAIN s : g[i] = g[j] => i = j}}

\* C17: _build_song_document returns the same document for every permutation
\* of a non-empty list of import records of one group.
C17_PermutationInvariant ==
    GroupBuilt =>
        \A l \in Reorderings(cg.records) :
            BuildSongDocument(GroupKey, l) = cg.document

\* C18: a standard-mode chart record is valid exactly when its course is one
\* of Easy, Normal, Hard, Oni, UraOni, it has no missing-chart-content issue
\* (at least one #START, at least one #END, not fewer #END than #START), no
\* unknown-course issue, notes and hit notes, and, when the course is
\* branched, branch sections N, E and M.
C18_StandardChartValid ==
    (cc.pc = "built" /\ cc.record.mode = "standard") =>
        (cc.record.valid <=>
            /\ cc.record.course \in {"Easy", "Normal", "Hard", "Oni", "UraOni"}
            /\ "missing-chart-content" \notin cc.record.issues
            /\ cc.course.start_blocks >= 1
            /\ cc.course.end_blocks >= 1
            /\ cc.course.end_blocks >= cc.course.start_blocks
            /\ "unknown-course" \notin cc.record.issues
            /\ cc.course.total_notes > 0
            /\ cc.course.hit_notes > 0
            /\ (cc.course.branch =>
                  {"N", "E", "M"} \subseteq cc.course.branch_sections))

\* C18 witness: a branched standard course with the three sections, notes
\* and balanced #START/#END gave a valid record
C18_Witness ==
    /\ cc.pc = "built" /\ cc.record.mode = "standard"
    /\ cc.course.branch /\ cc.record.valid
    /\ cc.course.start_blocks = 2 /\ cc.course.end_blocks = 2

\* C19: compute_group_key returns the same key for two import records that
\* differ only in the case of letters, percent-encoding, backslash for slash,
\* doubled slashes, inserted zero-width characters or NBSP, or surrounding
\* whitespace of relative_path, relative_dir and dir_url, with an audio hash
\* and without one.
C19_GroupKeyOfVariants ==
    ComputeGroupKey(gk.variant) = ComputeGroupKey(gk.base)

\* the suffix is .tja or an audio extension, whatever its case
WatchedPath(path) ==
    path # NoPath /\ SuffixLower(path) \in {".tja"} \cup SUPPORTED_AUDIO_EXTS

\* C20: an event schedules a scan callback exactly when it is not a directory
\* event and its path has a watched extension, the destination path of a
\* move included; any other event neither schedules nor cancels anything.
C20_EventSchedules ==
    wt.events > 0 =>
        /\ wt.called <=>
              /\ ~wt.last.is_directory
              /\ WatchedPath(wt.last.src_path) \/ WatchedPath(wt.last.dest_path)
        /\ ~wt.called => ~wt.cancelledNow

\* the directives the parser knows, by the upper-case first word of the line
RecognisedDirective(d) ==
    \/ d \in {"#START", "#END", "#BPMCHANGE", "#MEASURE", "#SCROLL",
              "#GOGOSTART", "#GOGOEND", "#NEXTSONG", "#N", "#E", "#M"}
    \/ d \in {"#BRANCHSTART", "#BRANCHEND"}

\* the upper-case first word of a line that starts with '#', else "?"
DirectiveOfLine(line) ==
    IF line # <<>> /\ line[1] \in HashTokens THEN UpperWord(line[1]) ELSE "?"

\* the counters of a course that only notes and block directives move
NoteCounters(c) ==
    <<c.total_notes, c.hit_notes, c.measures, c.first_note_preview,
      c.start_blocks, c.end_blocks>>

\* C21: a #-line that is no recognised directive, read inside a #START/#END
\* block, adds exactly one to unknown_directives of the course whose notes
\* are read and of the file, leaves total_notes, hit_notes, measures,
\* first_note_preview, start_blocks and end_blocks of every course as they
\* were, and the notes that follow still go to the same course.
C21_UnknownDirectiveCounted ==
    [][(/\ pt'.lines = pt.lines + 1
        /\ InNotes(pt.p)
        /\ DirectiveOfLine(pt'.line) # "?"
        /\ ~RecognisedDirective(DirectiveOfLine(pt'.line)))
       => /\ pt'.p.unknown_directives = pt.p.unknown_directives + 1
          /\ \A n \in ParserCourses :
                /\ pt'.p.courses[n].unknown_directives =
                       pt.p.courses[n].unknown_directives
                       + (IF n = pt.p.current_notes_course THEN 1 ELSE 0)
                /\ NoteCounters(pt'.p.courses[n]) = NoteCounters(pt.p.courses[n])
          /\ pt'.p.parsing_notes
          /\ pt'.p.current_notes_course = pt.p.current_notes_course]_vars

\* notes, an unknown directive, notes again: the course holds both measures
C21_Witness ==
    /\ pt.line = <<"1", ",">>
    /\ pt.p.unknown_directives = 1
    /\ \E n \in ParserCourses :
          /\ pt.p.courses[n].unknown_directives = 1
          /\ pt.p.courses[n].total_notes = 2
          /\ pt.p.courses[n].measures = 2

\* C22: whatever was read before, a line whose directive is #START, #END,
\* #BPMCHANGE, #MEASURE, #SCROLL, #GOGOSTART, #GOGOEND, #NEXTSONG, #N, #E, #M
\* or begins with #BRANCH leaves unknown_directives of the file and of every
\* course, standard or dojo, and total_notes, hit_notes and measures of
\* every course as they were.
C22_KnownDirectivesNotCounted ==
    [][(/\ pt'.lines = pt.lines + 1
        /\ RecognisedDirective(DirectiveOfLine(pt'.line)))
       => /\ pt'.p.unknown_directives = pt.p.unknown_directives
          /\ \A n \in ParserCourses :
                /\ pt'.p.courses[n].unknown_directives =
                       pt.p.courses[n].unknown_directives
                /\ pt'.p.courses[n].total_notes = pt.p.courses[n].total_notes
                /\ pt'.p.courses[n].hit_notes = pt.p.courses[n].hit_notes
                /\ pt'.p.courses[n].measures = pt.p.courses[n].measures]_vars

\* #SCROLL was read inside the note block of a dojo course that has a note
C22_Witness ==
    /\ pt.line = <<"#SCROLL">>
    /\ InNotes(pt.p)
    /\ pt.p.courses[pt.p.current_notes_course].mode = "dojo"
    /\ pt.p.courses[pt.p.current_notes_course].total_notes = 1
    /\ pt.p.unknown_directives = 0

\* the part of a line of a note block before its comment
BeforeComment(line) ==
    IF Elements(line) \cap CommentMarkers = {} THEN line
    ELSE SubSeq(line, 1, (CHOOSE i \in DOMAIN line :
                             /\ line[i] \in CommentMarkers
                             /\ \A j \in 1..(i - 1) : line[j] \notin CommentMarkers) - 1)

\* a measure line: no ':' and only digits, commas, white space and bars
IsMeasureLine(text) ==
    /\ ":" \notin Elements(text)
    /\ Elements(text) \subseteq Digits \cup {",", "|"} \cup Whitespace

\* the digits of a text, and those of them that are hits
DigitCount(text) == Cardinality({i \in DOMAIN text : text[i] \in Digits})
HitDigitCount(text) ==
    Cardinality({i \in DOMAIN text : text[i] \in {"1", "2", "3", "4", "5", "6"}})

\* the line just read is a measure line of the note block of course n
MeasureLineOf(n) ==
    /\ InNotes(pt.p)
    /\ n = pt.p.current_notes_course
    /\ IsMeasureLine(BeforeComment(pt'.line))

\* C23: a measure line inside a #START/#END block adds the number of its
\* digits to total_notes of the block's course and the number of its digits
\* in 1..6 to hit_notes; a line outside a block, a line with ':' and a line
\* with any other character add nothing to any course.
C23_NotesCounted ==
    [][pt'.lines = pt.lines + 1
       => \A n \in ParserCourses :
             /\ pt'.p.courses[n].total_notes - pt.p.courses[n].total_notes =
                    (IF MeasureLineOf(n)
                     THEN DigitCount(BeforeComment(pt'.line)) ELSE 0)
             /\ pt'.p.courses[n].hit_notes - pt.p.courses[n].hit_notes =
                    (IF MeasureLineOf(n)
                     THEN HitDigitCount(BeforeComment(pt'.line)) ELSE 0)]_vars

\* the token 90001 was read in a block after a note: 5 notes and 1 hit more
C23_Witness ==
    /\ pt.line = <<"9", "0", "0", "0", "1", ",">>
    /\ \E n \in ParserCourses :
          /\ pt.p.courses[n].total_notes = 6
          /\ pt.p.courses[n].hit_notes = 2

\* the tokens of a text that hold a digit and end at a comma, counted by
\* the commas that end them
CommaTerminatedTokens(text) ==
    Cardinality({i \in DOMAIN text :
                    /\ text[i] = ","
                    /\ \E j \in 1..(i - 1) :
                          /\ text[j] \in Digits
                          /\ \A k \in j..(i - 1) : text[k] # ","})

\* C24: a measure line inside a #START/#END block adds to measures of the
\* block's course the number of its tokens that hold a digit and are
\* followed by a comma; a trailing token without a comma adds nothing, and
\* no other line changes measures.
C24_MeasuresCounted ==
    [][pt'.lines = pt.lines + 1
       => \A n \in ParserCourses :
             pt'.p.courses[n].measures - pt.p.courses[n].measures =
                 (IF MeasureLineOf(n)
                  THEN CommaTerminatedTokens(BeforeComment(pt'.line)) ELSE 0)]_vars

\* the dojo course of the file and its segments
DojoCourse == pt.p.courses["Dojo"]

\* the file holds the dojo course alone and its one note block is closed
OneDojoBlock ==
    /\ DojoCourse.listed
    /\ ~pt.p.courses["Oni"].listed
    /\ DojoCourse.start_blocks = 1
    /\ DojoCourse.end_blocks = 1
    /\ ~pt.p.parsing_notes

\* the segments cover the measures 0..count in order, without gap or overlap
Partition(segments, count) ==
    /\ segments # <<>>
    /\ segments[1].start_measure = 0
    /\ \A i \in 2..Len(segments) :
          segments[i].start_measure = segments[i - 1].end_measure
    /\ \A i \in DOMAIN segments :
          /\ segments[i].end_measure # NoMeasure
          /\ segments[i].start_measure <= segments[i].end_measure
    /\ segments[Len(segments)].end_measure = count

SegmentsPartition == OneDojoBlock => Partition(DojoCourse.segments, DojoCourse.measures)

\* a line was read inside the one note block of the dojo course
ReadInDojoBlock ==
    /\ pt'.lines = pt.lines + 1
    /\ ~pt.p.courses["Oni"].listed
    /\ DojoCourse.start_blocks = 1
    /\ InNotes(pt.p)
    /\ DirectiveOfLine(pt'.line) # "#START"

\* #NEXTSONG and a WAVE line end the segment that is open
SegmentEnded ==
    (/\ ReadInDojoBlock
     /\ (DirectiveOfLine(pt'.line) = "#NEXTSONG" \/ IsWaveLine(pt'.line)))
    => /\ ~pt'.p.courses["Dojo"].open
       /\ Len(pt'.p.courses["Dojo"].segments) = Len(DojoCourse.segments)
       /\ DojoCourse.open =>
             pt'.p.courses["Dojo"].segments[Len(DojoCourse.segments)].end_measure
                 = DojoCourse.measure_index

\* a segment that opens takes the value of the last WAVE line, where an
\* empty WAVE line counts either as no audio or as no line at all
SegmentAudio ==
    (/\ ReadInDojoBlock
     /\ Len(pt'.p.courses["Dojo"].segments) > Len(DojoCourse.segments))
    => pt'.p.courses["Dojo"].segments[Len(pt'.p.courses["Dojo"].segments)].audio
           \in {pt.seen[1], pt.seen[2]}

\* C25: for a dojo course with one #START/#END block the segments partition
\* the measures of the block in order (the first starts at 0, each later one
\* at the end_measure of the one before, the last ends at the measure
\* count); #NEXTSONG and a WAVE line inside the block end the open segment;
\* the audio of a segment is the WAVE value in effect when it opened.
C25_DojoSegments ==
    /\ []SegmentsPartition
    /\ [][SegmentEnded /\ SegmentAudio]_vars

\* thread t executes the statement at which it stands
Steps(t) == th'[t] # th[t]

\* the statements of _upsert_song_document that are database operations:
\* the atomic upsert, the id/order assignment, the $set refresh and the
\* chart synchronisation
AtDatabaseOperation(t) ==
    \/ th[t].pc \in {"find", "assign", "sync"}
    \/ th[t].pc = "refresh" /\ th'[t].pc = "sync"

\* C26: every database operation that _upsert_song_document performs for a
\* group key is executed while the calling thread holds the lock of that
\* key, so the operations of two upserts of the key do not interleave.
C26_OperationsUnderLock ==
    [][\A t \in Threads :
          (Steps(t) /\ AtDatabaseOperation(t)) => locks[th[t].key] = t]_vars

\* the threads whose call allocated an id
Allocators == {t \in Threads : th[t].new_id # NoId}

\* all threads upserted the same key, which no collection of UpsertInit
\* holds, and all have returned
SameNewKeyDone ==
    /\ \A t \in Threads : th[t].pc = "done" /\ th[t].key = th[1].key
    /\ ~HasKey(SongsWithOneRow, ThreadKey(1))

\* C27: when two threads upsert the same group key that has no row yet,
\* exactly one id is allocated for the row, inserted is incremented by
\* exactly one of the calls, and the id the row holds once written is not
\* overwritten.
C27_OneIdForNewKey ==
    /\ [](SameNewKeyDone =>
            /\ Cardinality(Allocators) = 1
            /\ Cardinality({t \in Threads : th[t].summary.inserted = 1}) = 1
            /\ \A t \in Threads : th[t].summary.inserted <= 1)
    /\ [][\A i \in DOMAIN songs :
             songs[i].id # NoId => songs'[i].id = songs[i].id]_vars

\* C28: the atomic upsert is attempted at most 3 times per call; each
\* duplicate-key error adds one to duplicate_key_retries_total and another
\* attempt follows while attempts remain; the attempt that succeeds ends
\* the loop with errors unchanged; when all 3 attempts raise duplicate-key
\* the call returns no id, adds exactly one to errors, allocates no id and
\* writes nothing to the songs collection.
C28_RetryLoop ==
    /\ [](\A t \in Threads :
            /\ th[t].attempt <= MaxAttempts
            /\ th[t].retries = th[t].attempt
            /\ (th[t].pc = "find" => th[t].attempt < MaxAttempts)
            /\ (th[t].pc = "done" /\ th[t].attempt = MaxAttempts)
                  => /\ th[t].song_id = NoId
                     /\ th[t].new_id = NoId
                     /\ th[t].summary = [inserted |-> 0, updated |-> 0, errors |-> 1])
    /\ [][\A t \in Threads :
             /\ (Steps(t) /\ th[t].pc = "find" /\ th'[t].attempt > th[t].attempt)
                   => /\ th'[t].retries = th[t].retries + 1
                      /\ (th'[t].attempt < MaxAttempts => th'[t].pc = "find")
                      /\ songs' = songs
             /\ (Steps(t) /\ th[t].pc = "find" /\ th'[t].attempt = th[t].attempt)
                   => /\ th'[t].oid # 0
                      /\ th'[t].pc = "release"
                      /\ th'[t].summary.errors = th[t].summary.errors
             /\ (Steps(t) /\ th[t].attempt = MaxAttempts)
                   => songs' = songs /\ ctr' = ctr]_vars

\* a call gave up after three duplicate-key errors, another call of the same
\* key succeeded at its first attempt
C28_Witness ==
    /\ \E t \in Threads :
          /\ th[t].pc = "done"
          /\ th[t].retries = MaxAttempts
          /\ th[t].summary.errors = 1
    /\ \E t \in Threads :
          /\ th[t].pc = "done"
          /\ th[t].retries = 0
          /\ th[t].song_id # NoId

\* C29: under fair scheduling every call of scan() and every concurrent
\* call of _upsert_song_document returns; a call that has returned, also
\* by an exception, holds neither _scan_lock nor a group lock, and a thread
\* that waits for or holds the guard of the group locks holds no group lock.
C29_CallsReturn ==
    /\ [](\A t \in Threads :
            th[t].pc \in {"done", "guard", "lookup"}
               => \A n \in DOMAIN locks : locks[n] # t)
    /\ [](\A c \in Callers : sc[c].pc \in {"idle", "waiting"} => scanLock # c)
    /\ \A t \in Threads : [](th[t].pc # "idle" => <>(th[t].pc = "done"))
    /\ \A c \in Callers : [](sc[c].pc = "waiting" => <>(sc[c].pc = "idle"))

\* two calls for one key have returned, one by an exception of the driver
\* raised while it held the lock, the other after it got the lock
C29_Witness ==
    /\ th[1].key = th[2].key
    /\ \A t \in Threads : th[t].pc = "done"
    /\ \E t \in Threads : th[t].raised
    /\ \E t \in Threads : ~th[t].raised /\ th[t].song_id # NoId
    /\ \A n \in DOMAIN locks : locks[n] = NoThread

\* thread t executes the statement that follows the id assignment: the
\* refresh is issued (the call goes on to the chart synchronisation) or not
AtRefresh(t) == Steps(t) /\ th[t].pc = "refresh"
RefreshIssued(t) == AtRefresh(t) /\ th'[t].pc = "sync"

\* the refresh write did not raise
RefreshSucceeded(t) ==
    RefreshIssued(t) /\ th'[t].summary.errors = th[t].summary.errors

\* the fields of every row that the refresh must not write are as before
ProtectedKept ==
    /\ DOMAIN songs' = DOMAIN songs
    /\ \A i \in DOMAIN songs :
          \A f \in {"id", "order", "_id"} : songs'[i][f] = songs[i][f]
    /\ \A i \in DOMAIN songs : songs'[i].charts = songs[i].charts

\* the refresh and the chart synchronisation are issued iff inserted or
\* dirty, the refresh keeps the protected fields, and updated grows by one
\* exactly when the group is dirty, not inserted and the write succeeded
RefreshRule(t, inserted) ==
    /\ AtRefresh(t) =>
          /\ RefreshIssued(t) <=> (inserted \/ th[t].dirty)
          /\ ProtectedKept
    /\ Steps(t) =>
          th'[t].summary.updated - th[t].summary.updated =
              (IF RefreshSucceeded(t) /\ th[t].dirty /\ ~inserted THEN 1 ELSE 0)

MaxOf(S) == CHOOSE m \in S : \A x \in S : x <= m
MinOf(S) == CHOOSE m \in S : \A x \in S : m <= x

\* a pass of the scanner ends in this step; the ids it handed out
PassEnds == passes' = passes + 1
HandedInPass == AllocatedIn(CleanupInvalidGroupKeys(songs), songs')

\* the counter is seeded in this pass: with max(seq.value, highest id), and
\* the first id handed out is the seed plus one
SeededInPass == ctr.next = NoId /\ ctr'.next # NoId
SeedOfPass == Max(seq, HighestSongId(CleanupInvalidGroupKeys(songs)))

\* the ids handed out in the pass are above the seed and above every id the
\* scanner handed out before
IdsAscend ==
    /\ SeededInPass => HandedInPass # {} /\ MinOf(HandedInPass) = SeedOfPass + 1
    /\ \A id \in HandedInPass : \A old \in ad.handed : id > old

\* the seq row holds the largest id the scanner has handed out
SeqHoldsLargest == ad'.handed # {} => seq' = MaxOf(ad'.handed)

\* C31: within one scanner (nobody else has written to the database) the
\* first allocation seeds the counter with max(seq.value, highest catalog
\* id), every allocated id is greater than the seed and than every id
\* allocated earlier, and after each pass in which the largest
\* seeded-or-allocated id is positive the seq row holds that id.
C31_IdSequence ==
    [][(PassEnds /\ ad.n = 0) => IdsAscend /\ SeqHoldsLargest]_vars

ScanPassEnds == now' # now

\* C36: a scan pass never deletes or modifies a catalog row that the scanner
\* did not create: the rows without managed_by_scanner are the same after the
\* pass as before it.
C36_ForeignRowsKept ==
    [][ScanPassEnds =>
          \A i \in DOMAIN songs :
              ~songs[i].managed_by_scanner =>
                  \E j \in DOMAIN songs' : songs'[j] = songs[i]]_vars

\* ------------------------------------------------------- charts of a group
\* the member files of group key that the last pass found in the tree
MembersInPass(key) == {p \in trace.present : KeyOfFile(p) = key}

\* C33: at the end of every pass the charts array of each catalog row whose
\* group was seen in the pass holds only charts whose tja_path is a member
\* file of the group present in the tree during the pass; charts of a member
\* that was deleted or moved to another group are no longer in the row.
C33_ChartsOfPresentMembers ==
    (PassDone /\ trace.root /\ ~fsDirty /\ ~stDirty) =>
        \A i \in DOMAIN songs :
            songs[i].group_key \in trace.keys =>
                \A c \in DOMAIN songs[i].charts :
                    songs[i].charts[c].tja_path \in MembersInPass(songs[i].group_key)

\* ------------------------------------------------------- enabled of a group
\* the groups the last pass aggregated and whose upsert returned an id
UpsertedInPass == {key \in trace.keys : FailureOf(trace.failed, key) = "none"}

\* C34: at the end of every pass each catalog row whose group was aggregated
\* and upserted successfully in the pass has enabled equal to whether some
\* member record has an audio URL; a row that an earlier pass tombstoned
\* because the upsert of its group failed is enabled again by the next
\* incremental pass that sees the unchanged file with its audio.
C34_EnabledFollowsAudio ==
    (PassDone /\ trace.root /\ ~fsDirty /\ ~stDirty) =>
        \A key \in UpsertedInPass :
            /\ HasKey(songs, key)
            /\ RowWithKey(songs, key).enabled =
                  (\E p \in MembersInPass(key) : fs.files[p].ac # NoAudio)

\* ------------------------------------------------- the synchronised array
\* a stored chart without the updatedAt that the synchronisation stamps on it
WithoutUpdatedAt(elem) == [f \in (DOMAIN elem) \ {"updatedAt"} |-> elem[f]]

\* stored holds exactly one element for every desired chart, and nothing else
HoldsExactly(stored, desired) ==
    /\ \A d \in DOMAIN desired :
          Cardinality({i \in DOMAIN stored :
                          WithoutUpdatedAt(stored[i]) = desired[d]}) = 1
    /\ \A i \in DOMAIN stored :
          \E d \in DOMAIN desired : WithoutUpdatedAt(stored[i]) = desired[d]

\* C35: after _sync_song_charts ran with a non-empty desired list and no
\* driver error, the stored charts array holds exactly one element equal,
\* apart from updatedAt, to each desired chart and no other element, whatever
\* it held before, also when several desired dojo charts share the course
\* Dojo and differ in display_course.
C35_SyncedCharts ==
    [][(cg.pc = "built" /\ cg'.pc = "idle" /\ cg.document.charts # <<>>) =>
          HoldsExactly(RowWithKey(songs', GroupKey).charts,
                       cg.document.charts)]_vars

\* ------------------------------------------------------- the debounce timer
\* the timers that are neither cancelled nor fired
LiveTimers(wat) == {i \in DOMAIN wat.timers : wat.timers[i].state = "waiting"}

\* this step is a qualifying event; this step is the firing of timer i
EventSchedulesNow == wt'.scheduled = wt.scheduled + 1
FiresNow(i) ==
    /\ i \in DOMAIN wt.timers
    /\ wt.timers[i].state = "waiting"
    /\ wt'.timers[i].state # "waiting"
    /\ wt'.callbacks = wt.callbacks + 1

\* a qualifying event leaves exactly one live timer, a new one, due one
\* debounce delay later
EventRestartsTimer ==
    EventSchedulesNow =>
        /\ Len(wt'.timers) = Len(wt.timers) + 1
        /\ LiveTimers(wt') = {Len(wt'.timers)}
        /\ wt'.timers[Len(wt'.timers)].due = wt.clock + Debounce
        /\ \A i \in LiveTimers(wt) : wt'.timers[i].state = "cancelled"

\* the timer that fires is the one of the last qualifying event, at its due
\* time
LastTimerFiresOnTime ==
    \A i \in 1..MaxEvents :
        FiresNow(i) => i = Len(wt.timers) /\ wt.clock = wt.timers[i].due

\* one callback for each burst (a burst starts with an event that finds no
\* timer waiting), once its last timer has fired
OneCallbackPerBurst ==
    /\ wt.callbacks <= wt.bursts
    /\ LiveTimers(wt) = {} => wt.callbacks = wt.bursts

\* C37: at most one debounce timer is live (neither cancelled nor fired) at
\* any time; each qualifying event cancels the pending timer and starts a new
\* one, so a burst of qualifying events, each arriving before the previous
\* timer expires, causes exactly one scan callback, fired one debounce delay
\* after the last event of the burst.
C37_Debounce ==
    /\ [](Cardinality(LiveTimers(wt)) <= 1 /\ OneCallbackPerBurst)
    /\ [][EventRestartsTimer /\ LastTimerFiresOnTime]_vars

\* a burst of two events, the second arriving while the timer of the first
\* was waiting, has caused one callback
C37_Witness ==
    /\ wt.bursts = 1
    /\ wt.scheduled >= 2
    /\ wt.cancelled >= 1
    /\ wt.callbacks = 1
    /\ LiveTimers(wt) = {}
    /\ wt.timers[1].state = "cancelled"

\* --------------------------------------------- events during a running scan
\* the callback of a timer created by event k or by a later event has
\* entered its pass
ScanAfterEvent(k) ==
    \E j \in k..MaxEvents :
        /\ j \in DOMAIN wt.timers
        /\ wt.timers[j].state \in {"scanning", "done"}

\* C38: a qualifying event that arrives while a watcher-triggered scan is
\* running is not lost: a further scan callback runs after the event, and the
\* pass it triggers starts only after the running pass has released
\* _scan_lock.
C38_EventNotLost ==
    /\ [](Cardinality({i \in DOMAIN wt.timers :
                          wt.timers[i].state = "scanning"}) <= 1)
    /\ \A k \in 1..MaxEvents :
          [](((k \in DOMAIN wt.timers) /\ wt.timers[k].during)
                => <>ScanAfterEvent(k))

\* an event arrived while a callback was scanning; the callback of its timer
\* waited for the lock and has run its own pass
C38_Witness ==
    \E k \in DOMAIN wt.timers :
        /\ wt.timers[k].during
        /\ wt.timers[k].state = "done"
        /\ passes = 2


\* C39: when parse_tja has read the whole text, every segment of the dojo
\* course has an end_measure that is not None and not below its
\* start_measure, and every gogo range of it has start <= end
SegmentClosed(segment) ==
    /\ segment.end_measure # NoMeasure
    /\ segment.start_measure <= segment.end_measure
GogoOrdered(segment) ==
    \A j \in DOMAIN segment.gogo_ranges :
        segment.gogo_ranges[j].start <= segment.gogo_ranges[j].end
C39_DojoRanges ==
    pt.pc = "done" =>
        \A i \in DOMAIN DojoCourse.segments :
            /\ SegmentClosed(DojoCourse.segments[i])
            /\ GogoOrdered(DojoCourse.segments[i])

\* C40: an #END read inside a note block adds one to end_blocks of the
\* course whose note block it closes, the one #START counted for
ReadsEnd ==
    /\ pt.pc = "reading"
    /\ pt'.lines = pt.lines + 1
    /\ pt'.line \in DirectiveLines
    /\ UpperWord(pt'.line[1]) = "#END"
    /\ InNotes(pt.p)
C40_BlocksOfCourse ==
    [][ReadsEnd =>
          pt'.p.courses[pt.p.current_notes_course].end_blocks =
              pt.p.courses[pt.p.current_notes_course].end_blocks + 1]_vars

==============================================================================
